---- MODULE Spec2Model ----
(***************************************************************************)
(* Model of the async-graphql request parser core:                         *)
(*   - Document::retain_operation / Document::current_operation            *)
(*     (async-graphql-parser/src/query.rs), under Spec                     *)
(*   - PositionCalculator::step, under SpecPos                             *)
(*   - the AST builder's transforms: parse_value2, unquote_string,         *)
(*     parse_object_value, parse_type, parse_type_condition and            *)
(*     parse_query's error path, under SpecParse                           *)
(*     (async-graphql-parser/src/query_parser.rs)                          *)
(*   - the order of the PositionCalculator::step calls, get_argument and   *)
(*     the KnownFragmentNames rule, under SpecParse                        *)
(*   - parse_query calls running side by side, under SpecRuns              *)
(***************************************************************************)
EXTENDS Integers, Sequences, FiniteSets, TLC

\* ------------------------------------------------------------------ bounds
MaxDefs == 3        \* top-level definitions in one source document
MaxCalls == 2       \* retain_operation calls on one Document
MaxTextLen == 4     \* characters in a text fed to the PositionCalculator
MaxUnits == 2       \* characters and escapes in a string literal
MaxPairs == 3       \* name: value pairs in an object literal
MaxTypeDepth == 2   \* list brackets nested in a type reference
MaxArgs == 2        \* string arguments of one field
MaxArgDefs == 2     \* definitions in a document whose fields take arguments
MaxStrings == 4     \* string arguments of such a document, all fields together
MaxSpreads == 2     \* selections of a validated field, and fragment definitions
MaxRunLen == 3      \* characters in a text parsed side by side with another

\* ------------------------------------------------------------- vocabulary
FragmentNames == {"F", "G"}
\* Option<T>: None, or Some(v)
None == [is_some |-> FALSE]
Some(v) == [is_some |-> TRUE, value |-> v]

\* Option<&str> values an operation can carry or a caller can request
OptNames ==
    LET OperationNames == {"A", "B"}
    IN
    {None} \cup {Some(n) : n \in OperationNames}

\* ------------------------------------------------- selection-set contents
\* `hero { name }`
HeroItems ==
    << [selection |-> "Field", name |-> "hero",
        selection_set |-> << [selection |-> "Field", name |-> "name",
                              selection_set |-> << >>] >>] >>

\* `...F`
SpreadItems == << [selection |-> "FragmentSpread", fragment_name |-> "F"] >>

\* `a`
LeafItems == << [selection |-> "Field", name |-> "a", selection_set |-> << >>] >>

\* --------------------------------------------- grammar pairs (parse input)

RECURSIVE SeqsUpTo(_, _)
SeqsUpTo(S, n) ==
    IF n = 0 THEN { << >> }
    ELSE LET shorter == SeqsUpTo(S, n - 1)
         IN  shorter \cup { Append(s, x) : s \in { t \in shorter : Len(t) = n - 1 }, x \in S }

Sources ==
    LET Pairs ==
            LET \* The children of the `document` pair that parse_query dispatches on.  A
                \* pair's index in the document stands for its span start, so that every
                \* definition gets a position of its own.
                ShorthandPairs ==
                    { [rule |-> "selection_set", items |-> it] : it \in {HeroItems, SpreadItems} }
            IN
            LET NamedPairs ==
                    LET Keywords == {"query", "mutation", "subscription"}
                    IN
                    { [rule |-> "named_operation_definition", operation_type |-> k,
                       name |-> n, items |-> LeafItems] : k \in Keywords, n \in OptNames }
            IN
            LET FragmentPairs ==
                    { [rule |-> "fragment_definition", name |-> n, items |-> LeafItems]
                        : n \in FragmentNames }
            IN
            ShorthandPairs \cup NamedPairs \cup FragmentPairs
    IN
    SeqsUpTo(Pairs, MaxDefs)

\* ---------------------------------------------------------------- state
VARIABLES
    phase,              \* "source", "document", "panicked"; "text"; "pair"; "runs"
    source,             \* the grammar's children of the document pair
    definitions,        \* Document.definitions
    fragments,          \* Document.fragments
    current_operation,  \* Document.current_operation
    calls,              \* number of retain_operation calls made so far
    operation_name,     \* argument of the latest retain_operation call
    ret,                \* return value of the latest retain_operation call
    first,              \* fragments/current_operation/ret after the first call
    succeeded,          \* some retain_operation call has returned true
    last_call,          \* the operation executed last
    access,             \* outcome of the latest current_operation() call
    input,              \* PositionCalculator: the text behind the iterator
    consumed,           \* PositionCalculator: chars taken from the iterator
    pos,                \* PositionCalculator.pos
    line,               \* PositionCalculator.line
    column,             \* PositionCalculator.column
    stepped,            \* Pos returned by the latest step, with its offset
    lit,                \* the literal or grammar pair handed to the AST builder
    out,                \* what the AST builder returned for it
    drained,            \* positions of the definitions the latest drain yielded
    runs,               \* the parse_query calls in progress, by caller
    calcs,              \* the PositionCalculator each run created
    lists               \* the definitions list each run created

pcvars == << input, consumed, pos, line, column, stepped >>
valvars == << lit, out >>
runvars == << runs, calcs, lists >>
vars == << phase, source, definitions, fragments, current_operation, calls,
           operation_name, ret, first, succeeded, last_call, access,
           input, consumed, pos, line, column, stepped, lit, out,
           drained, runs, calcs, lists >>

\* ------------------------------------------------------ FragmentsMap
EmptyMap == [n \in {} |-> None]

Keys(m) == DOMAIN m

\* variant of Insert: an entry already present is kept (entry().or_insert)
Insert_KeepFirst(m, k, v) ==
    [n \in (DOMAIN m) \cup {k} |-> IF n \in DOMAIN m THEN m[n] ELSE v]

\* HashMap::insert: a repeated key overwrites the previous entry
Insert(m, k, v) == [n \in (DOMAIN m) \cup {k} |-> IF n = k THEN v ELSE m[n]]

\* ------------------------------------------------------------ parse_query
\* parse_named_operation_definition: the keyword text picks the
\* OperationDefinition variant the node is packed into.
VariantOfKeyword(keyword) ==
    CASE keyword = "query" -> "Query"
      [] keyword = "mutation" -> "Mutation"
      [] keyword = "subscription" -> "Subscription"

\* parse_selection_set: Positioned<SelectionSet>
ParseSelectionSet(pair, at) == [pos |-> at, items |-> pair.items]

\* parse_named_operation_definition, packed as Definition::Operation.  Each
\* named operation of the model declares one variable, `$v`, positioned with
\* its operation.
ParseNamedOperationDefinition(pair, at) ==
    [def |-> "Operation",
     op |-> VariantOfKeyword(pair.operation_type),
     name |-> pair.name,
     variable_definitions |-> << [name |-> "v", pos |-> at] >>,
     selection_set |-> ParseSelectionSet(pair, at)]

\* parse_selection_set packed as OperationDefinition::SelectionSet
ParseShorthand(pair, at) ==
    [def |-> "Operation", op |-> "SelectionSet",
     selection_set |-> ParseSelectionSet(pair, at)]

\* parse_fragment_definition, packed as Definition::Fragment
ParseFragmentDefinition(pair, at) ==
    [def |-> "Fragment", name |-> pair.name,
     selection_set |-> ParseSelectionSet(pair, at)]

\* the match of parse_query's loop, for the pair that stands at index `at`
ParseDefinition(pair, at) ==
    CASE pair.rule = "named_operation_definition" -> ParseNamedOperationDefinition(pair, at)
      [] pair.rule = "selection_set" -> ParseShorthand(pair, at)
      [] pair.rule = "fragment_definition" -> ParseFragmentDefinition(pair, at)

ParseDefinitions(src) == [i \in 1..Len(src) |-> ParseDefinition(src[i], i)]

\* ------------------------------------------- Document::retain_operation
\* variant of Acceptable: the `operation_name.is_none()` disjunct is missing
Acceptable_NoRequestCase(d, requested) ==
    \/ d.name = None
    \/ d.name = requested

\* guard of the Query / Mutation / Subscription arms
Acceptable(d, requested) ==
    \/ d.name = None
    \/ requested = None
    \/ d.name = requested

\* variant of TypeOfVariant: the Subscription arm stores OperationType::Query
TypeOfVariant_CopiedArm(op) ==
    CASE op = "Query" -> "OperationType::Query"
      [] op = "Mutation" -> "OperationType::Mutation"
      [] op = "Subscription" -> "OperationType::Query"

\* OperationType stored by the arm that matches the variant
TypeOfVariant(op) ==
    CASE op = "Query" -> "OperationType::Query"
      [] op = "Mutation" -> "OperationType::Mutation"
      [] op = "Subscription" -> "OperationType::Subscription"

\* variant of ChooseShorthand: the shorthand is given no operation type of
\* its own and is stored as a mutation
ChooseShorthand_WrongType(d) ==
    [ty |-> "OperationType::Mutation",
     variable_definitions |-> << >>,
     selection_set |-> d.selection_set]

\* the CurrentOperation built by the SelectionSet arm
ChooseShorthand(d) ==
    [ty |-> "OperationType::Query",
     variable_definitions |-> << >>,
     selection_set |-> d.selection_set]

\* the CurrentOperation built by the Query / Mutation / Subscription arms
ChooseNamed(d) ==
    [ty |-> TypeOfVariant(d.op),
     variable_definitions |-> d.variable_definitions,
     selection_set |-> d.selection_set]

\* variant of Visit: the `if self.current_operation.is_none()` guard is
\* missing, so a later acceptable operation replaces the chosen one
Visit_NoChosenGuard(st, d, requested) ==
    IF d.def = "Operation"
    THEN IF d.op = "SelectionSet"
         THEN [st EXCEPT !.cur = Some(ChooseShorthand(d))]
         ELSE IF Acceptable(d, requested)
              THEN [st EXCEPT !.cur = Some(ChooseNamed(d))]
              ELSE st
    ELSE [st EXCEPT !.frags = Insert(st.frags, d.name, d)]

\* one iteration of the drain loop; st = [cur, frags, seen]
Visit(st, d, requested) ==
    IF d.def = "Operation" /\ st.cur = None
    THEN IF d.op = "SelectionSet"
         THEN [st EXCEPT !.cur = Some(ChooseShorthand(d))]
         ELSE IF Acceptable(d, requested)
              THEN [st EXCEPT !.cur = Some(ChooseNamed(d))]
              ELSE st
    ELSE IF d.def = "Operation"
         THEN st
         ELSE [st EXCEPT !.frags = Insert(st.frags, d.name, d)]

\* variant of Drain: the loop breaks as soon as an operation is chosen
RECURSIVE Drain_BreakWhenChosen(_, _, _)
Drain_BreakWhenChosen(st, defs, requested) ==
    IF defs = << >> \/ st.cur # None THEN st
    ELSE Drain_BreakWhenChosen(
             [Visit(st, Head(defs), requested)
                EXCEPT !.seen = Append(st.seen, Head(defs).selection_set.pos)],
             Tail(defs), requested)

\* variant of Drain: the definitions are popped from the back of the list
RECURSIVE Drain_NewestFirst(_, _, _)
Drain_NewestFirst(st, defs, requested) ==
    IF defs = << >> THEN st
    ELSE LET d == defs[Len(defs)]
         IN  Drain_NewestFirst(
                 [Visit(st, d, requested) EXCEPT !.seen = Append(st.seen, d.selection_set.pos)],
                 SubSeq(defs, 1, Len(defs) - 1), requested)

\* the drain loop over self.definitions, left to right; st.seen lists the
\* positions of the definitions the iterator has yielded
RECURSIVE Drain(_, _, _)
Drain(st, defs, requested) ==
    IF defs = << >> THEN st
    ELSE Drain([Visit(st, Head(defs), requested)
                  EXCEPT !.seen = Append(st.seen, Head(defs).selection_set.pos)],
               Tail(defs), requested)

\* `self.current_operation.is_some()`, the value retain_operation returns
IsSome(cur) == cur # None

\* variant of RetainResult: the current operation is reset on every call, as
\* the fragments table is
RetainResult_ResetCurrent(defs, cur, requested) ==
    Drain([cur |-> None, frags |-> EmptyMap, seen |-> << >>], defs, requested)

\* the local `fragments` starts as HashMap::new() on every call
RetainResult(defs, cur, requested) ==
    Drain([cur |-> cur, frags |-> EmptyMap, seen |-> << >>], defs, requested)

\* variant of CurrentOperationCall: a missing operation yields an empty
\* default operation instead of a panic
CurrentOperationCall_Default(cur) ==
    IF cur = None
    THEN [panic |-> FALSE,
          value |-> [ty |-> "OperationType::Query", variable_definitions |-> << >>,
                     selection_set |-> [pos |-> 0, items |-> << >>]]]
    ELSE [panic |-> FALSE, value |-> cur.value]

\* Document::current_operation(): expect() panics on None
CurrentOperationCall(cur) ==
    IF cur = None THEN [panic |-> TRUE] ELSE [panic |-> FALSE, value |-> cur.value]

NotCalled == [panic |-> FALSE, called |-> FALSE]

\* ------------------------------------------------- PositionCalculator

\* char::len_utf8
LenUtf8(c) == IF c = "U+00E9" THEN 2 ELSE 1

Texts ==
    LET \* Characters of a source text.  "a" stands for any one-byte character that
        \* can open a token, "CR" and "LF" for '\r' and '\n', and "U+00E9" for a
        \* character that takes two bytes in UTF-8.
        Chars == {"a", "CR", "LF", "U+00E9"}
    IN
    SeqsUpTo(Chars, MaxTextLen)

RECURSIVE ByteLen(_)
ByteLen(text) ==
    IF text = << >> THEN 0 ELSE LenUtf8(Head(text)) + ByteLen(Tail(text))

\* byte offset at which the i-th character of the text starts
ByteStart(text, i) == ByteLen(SubSeq(text, 1, i - 1))

\* pair.as_span().start() of the pairs the AST builder steps to: the byte
\* offsets at which a token-opening character stands
NodeOffsets(text) == { ByteStart(text, i) : i \in { j \in 1..Len(text) : text[j] = "a" } }

\* one iteration of the loop in step; c = [consumed, line, column, done],
\* done being the `None => break`
Advance(c, text) ==
    IF c.consumed >= Len(text)
    THEN [c EXCEPT !.done = TRUE]
    ELSE LET ch == text[c.consumed + 1]
             peek == IF c.consumed + 2 <= Len(text)
                     THEN Some(text[c.consumed + 2]) ELSE None
         IN  IF ch = "CR"
             THEN IF peek = Some("LF")
                  THEN [c EXCEPT !.consumed = c.consumed + 2,
                                 !.line = c.line + 1, !.column = 1]
                  ELSE [c EXCEPT !.consumed = c.consumed + 1,
                                 !.column = c.column + 1]
             ELSE IF ch = "LF"
                  THEN [c EXCEPT !.consumed = c.consumed + 1,
                                 !.line = c.line + 1, !.column = 1]
                  ELSE [c EXCEPT !.consumed = c.consumed + 1,
                                 !.column = c.column + 1]

\* `for _ in 0..pos - self.pos`
RECURSIVE StepLoop(_, _, _)
StepLoop(c, n, text) ==
    IF n = 0 \/ c.done THEN c ELSE StepLoop(Advance(c, text), n - 1, text)

\* ------------------------------------------------------ unquote_string
\* Characters of a string literal are their code points.
Quote == 34
Backslash == 92
Slash == 47

\* Result<T>
Ok(v) == [ok |-> TRUE, value |-> v]
Err(p, kind, arg) == [ok |-> FALSE, pos |-> p, message |-> [kind |-> kind, arg |-> arg]]
\* a failed expect()/unwrap()/unreachable!()
Panic == [ok |-> FALSE, panic |-> TRUE]

\* char::is_digit(16)
IsHexDigit(c) == c \in (48..57) \cup (65..70) \cup (97..102)

\* value of one hexadecimal digit
HexVal(c) ==
    IF c \in 48..57 THEN c - 48
    ELSE IF c \in 65..70 THEN c - 55
    ELSE c - 87

\* u32::from_str_radix(digits, 16) for hexadecimal digits
RECURSIVE FromStrRadix16(_)
FromStrRadix16(digits) ==
    IF digits = << >> THEN 0
    ELSE 16 * FromStrRadix16(SubSeq(digits, 1, Len(digits) - 1))
         + HexVal(digits[Len(digits)])

\* std::char::from_u32: None for the surrogates and beyond U+10FFFF
CharFromU32(n) ==
    IF (n >= 55296 /\ n <= 57343) \/ n > 1114111 THEN None ELSE Some(n)

\* the arms of the escape match that push one character:
\* '"' | '\\' | '/' push the character itself, then 'b' 'f' 'n' 'r' 't'
SimpleEscape(c) ==
    CASE c = 98 -> 16      \* 'b' => '\u{0010}'
      [] c = 102 -> 12     \* 'f' => '\u{000C}'
      [] c = 110 -> 10     \* 'n' => '\n'
      [] c = 114 -> 13     \* 'r' => '\r'
      [] c = 116 -> 9      \* 't' => '\t'
      [] OTHER -> c

IsSimpleEscape(c) == c \in {Quote, Backslash, Slash, 98, 102, 110, 114, 116}

\* variant of ReadHex: the loop reads five characters after `\u`
RECURSIVE ReadHex_FiveDigits(_, _, _, _)
ReadHex_FiveDigits(s, i, temp, p) ==
    IF Len(temp) = 5 THEN [ok |-> TRUE, digits |-> SubSeq(temp, 1, 4), next |-> i]
    ELSE IF i > Len(s) THEN Err(p, "must have 4 characters after it", temp)
    ELSE IF IsHexDigit(s[i]) THEN ReadHex_FiveDigits(s, i + 1, Append(temp, s[i]), p)
    ELSE Err(p, "is not a valid unicode code point", << s[i] >>)

\* variant of ReadHex: the errors carry Pos::default()
RECURSIVE ReadHex_DefaultPos(_, _, _, _)
ReadHex_DefaultPos(s, i, temp, p) ==
    IF Len(temp) = 4 THEN [ok |-> TRUE, digits |-> temp, next |-> i]
    ELSE IF i > Len(s)
         THEN Err([line |-> 0, column |-> 0], "must have 4 characters after it", temp)
    ELSE IF IsHexDigit(s[i]) THEN ReadHex_DefaultPos(s, i + 1, Append(temp, s[i]), p)
    ELSE Err([line |-> 0, column |-> 0], "is not a valid unicode code point", << s[i] >>)

\* `for _ in 0..4` after `\u`: temp is temp_code_point, i the next character
RECURSIVE ReadHex(_, _, _, _)
ReadHex(s, i, temp, p) ==
    IF Len(temp) = 4 THEN [ok |-> TRUE, digits |-> temp, next |-> i]
    ELSE IF i > Len(s) THEN Err(p, "must have 4 characters after it", temp)
    ELSE IF IsHexDigit(s[i]) THEN ReadHex(s, i + 1, Append(temp, s[i]), p)
    ELSE Err(p, "is not a valid unicode code point", << s[i] >>)

\* variant of BadEscape: an unknown escape pushes the escaped character
BadEscape_Lenient(c, p) == Ok(c)

\* the `c =>` arm of the escape match
BadEscape(c, p) == Err(p, "bad escaped char", << c >>)

\* the `while let Some(c) = chars.next()` loop; i is the next character
RECURSIVE Decode(_, _, _, _)
Decode(s, i, res, p) ==
    IF i > Len(s) THEN Ok(res)
    ELSE IF s[i] # Backslash THEN Decode(s, i + 1, Append(res, s[i]), p)
    ELSE IF i + 1 > Len(s) THEN Panic    \* expect("slash cant be at the end")
    ELSE LET c == s[i + 1]
         IN  IF IsSimpleEscape(c)
             THEN Decode(s, i + 2, Append(res, SimpleEscape(c)), p)
             ELSE IF c = 117
             THEN LET h == ReadHex(s, i + 2, << >>, p)
                  IN  IF ~h.ok THEN h
                      ELSE LET ch == CharFromU32(FromStrRadix16(h.digits))
                           IN  IF ch = None
                               THEN Err(p, "is not a valid unicode code point", h.digits)
                               ELSE Decode(s, h.next, Append(res, ch.value), p)
             ELSE LET b == BadEscape(c, p)
                  IN  IF b.ok THEN Decode(s, i + 2, Append(res, b.value), p) ELSE b

\* unquote_string(s, pos): s is the literal with its quotes
UnquoteString(s, p) ==
    LET body == SubSeq(s, 2, Len(s) - 1)
    IN  IF \A i \in 1..Len(body) : body[i] # Backslash
        THEN Ok(body)
        ELSE Decode(body, 1, << >>, p)

\* parse_value2, Rule::string: the start position pest reports for the pair
\* goes to unquote_string, and its error is returned by `?`
ParseStringValue(l) ==
    LET r == UnquoteString(l.text, l.start)
    IN  IF r.ok THEN Ok([value |-> "String", string |-> r.value]) ELSE r

\* ---- string literals handed to parse_value2
\* A literal is built from units so that its escapes are known by
\* construction: a plain character, a one-character escape, or `\u` and up
\* to four characters.
PlainUnit(c) == [kind |-> "plain", chars |-> << c >>]
EscapeUnit(c) == [kind |-> "escape", chars |-> << Backslash, c >>]
UnicodeUnit(q) == [kind |-> "unicode", chars |-> << Backslash, 117 >> \o q]

\* \" \\ \/ \b \f \n \r \t
SimpleUnits == { EscapeUnit(c) : c \in {Quote, Backslash, Slash, 98, 102, 110, 114, 116} }

Units ==
    LET \* 'a' (also a hexadecimal digit) and 'Z'
        PlainUnits == { PlainUnit(97), PlainUnit(90) }
        \* \q
        BadUnits == { EscapeUnit(113) }
        \* A  \uDDDD  \u00Z1  and the cut-off \u00
        SomeUnicodeUnits ==
            { UnicodeUnit(<< 48, 48, 52, 49 >>), UnicodeUnit(<< 68, 68, 68, 68 >>),
              UnicodeUnit(<< 48, 48, 90, 49 >>), UnicodeUnit(<< 48, 48 >>) }
    IN
    PlainUnits \cup SimpleUnits \cup BadUnits \cup SomeUnicodeUnits

WellPlaced(us) ==
    LET \* a `\u` with fewer than four characters can only end the literal
        CutOff(u) == u.kind = "unicode" /\ Len(u.chars) < 6
    IN
    \A i \in 1..(Len(us) - 1) : ~CutOff(us[i])

\* '0' '1' '4' 'D' and the non-digit 'Z'
QuadChars == {48, 49, 52, 68, 90}

\* every `\uXXXX` over QuadChars, alone, after a plain character, before a
\* hexadecimal digit or before an escape
QuadLiterals ==
    { pre \o << UnicodeUnit(q) >> \o post :
        q \in SeqsUpTo(QuadChars, 4),
        pre \in { << >>, << PlainUnit(90) >> },
        post \in { << >>, << PlainUnit(52) >>, << EscapeUnit(110) >> } }

UnitSeqs ==
    { us \in SeqsUpTo(Units, MaxUnits) \cup QuadLiterals : WellPlaced(us) }

RECURSIVE Flatten(_)
Flatten(us) == IF us = << >> THEN << >> ELSE Head(us).chars \o Flatten(Tail(us))

StringLiterals ==
    LET \* positions pest can report for the opening quote
        StartPositions == { [line |-> 1, column |-> 1], [line |-> 2, column |-> 5] }
    IN
    { [kind |-> "string", units |-> us, start |-> p,
       text |-> << Quote >> \o Flatten(us) \o << Quote >>]
        : us \in UnitSeqs, p \in StartPositions }

\* ------------------------------------------------------- parse_value2
\* Grammar pairs are records: `rule` is the pair's Rule, `inner` its children
\* and `str` the text of a leaf.
Leaf(rule, str) == [rule |-> rule, str |-> str]
Node(rule, inner) == [rule |-> rule, inner |-> inner]

\* ---- str::parse::<i64>() on the text of an int pair
Minus == 45

\* decimal digits of i64::MAX and of the magnitude of i64::MIN
I64MaxDigits == << 57, 50, 50, 51, 51, 55, 50, 48, 51, 54, 56, 53, 52, 55, 55, 53, 56, 48, 55 >>
I64MinDigits == << 57, 50, 50, 51, 51, 55, 50, 48, 51, 54, 56, 53, 52, 55, 55, 53, 56, 48, 56 >>

RECURSIVE StripZeros(_)
StripZeros(ds) ==
    IF Len(ds) > 1 /\ Head(ds) = 48 THEN StripZeros(Tail(ds)) ELSE ds

\* a <= b for digit strings of one length
RECURSIVE DigitsLeq(_, _)
DigitsLeq(a, b) ==
    IF a = << >> THEN TRUE
    ELSE IF Head(a) < Head(b) THEN TRUE
    ELSE IF Head(a) > Head(b) THEN FALSE
    ELSE DigitsLeq(Tail(a), Tail(b))

\* magnitude <= limit, both without leading zeros
FitsIn(ds, limit) ==
    \/ Len(ds) < Len(limit)
    \/ Len(ds) = Len(limit) /\ DigitsLeq(ds, limit)

\* Ok(n) when the literal is in range, Err (PosOverflow / NegOverflow) when not
ParseI64(text) ==
    LET negative == text # << >> /\ Head(text) = Minus
        ds == StripZeros(IF negative THEN Tail(text) ELSE text)
    IN  IF FitsIn(ds, IF negative THEN I64MinDigits ELSE I64MaxDigits)
        THEN Ok([negative |-> negative /\ ds # << 48 >>, digits |-> ds])
        ELSE [ok |-> FALSE, error |-> "ParseIntError"]

\* Result::unwrap
Unwrap(r) == IF r.ok THEN r ELSE Panic

\* variant of ObjectInsert: a key already in the map keeps its value
ObjectInsert_KeepFirst(map, k, v) ==
    [n \in (DOMAIN map) \cup {k} |-> IF n \in DOMAIN map THEN map[n] ELSE v]

\* map.extend(std::iter::once((name, value))) on the BTreeMap
ObjectInsert(map, k, v) ==
    [n \in (DOMAIN map) \cup {k} |-> IF n = k THEN v ELSE map[n]]

RECURSIVE ParseValue2(_)
RECURSIVE ParseObjectPairs(_, _)
RECURSIVE ParseArrayValues(_, _)

\* the loop of parse_object_value, parse_object_pair inlined: each pair is
\* a name and a value
ParseObjectPairs(pairs, map) ==
    IF pairs = << >> THEN Ok([value |-> "Object", map |-> map])
    ELSE LET name == Head(pairs).inner[1].str
             v == ParseValue2(Head(pairs).inner[2])
         IN  IF ~v.ok THEN v
             ELSE ParseObjectPairs(Tail(pairs), ObjectInsert(map, name, v.value))

\* the loop of parse_array_value
ParseArrayValues(values, array) ==
    IF values = << >> THEN Ok([value |-> "List", list |-> array])
    ELSE LET v == ParseValue2(Head(values))
         IN  IF ~v.ok THEN v
             ELSE ParseArrayValues(Tail(values), Append(array, v.value))

\* parse_value2: dispatch on the single child of the value pair
ParseValue2(pair) ==
    LET child == pair.inner[1]
    IN  CASE child.rule = "object" -> ParseObjectPairs(child.inner, EmptyMap)
          [] child.rule = "array" -> ParseArrayValues(child.inner, << >>)
          [] child.rule = "variable" ->
                Ok([value |-> "Variable", name |-> child.inner[1].str])
          [] child.rule = "float" -> Ok([value |-> "Float", float |-> child.str])
          [] child.rule = "int" ->
                LET n == Unwrap(ParseI64(child.str))
                IN  IF n.ok THEN Ok([value |-> "Int", int |-> n.value]) ELSE n
          [] child.rule = "string" -> ParseStringValue(child)
          [] child.rule = "name" -> Ok([value |-> "Enum", name |-> child.str])
          [] child.rule = "boolean" ->
                IF child.str = "true" THEN Ok([value |-> "Boolean", boolean |-> TRUE])
                ELSE IF child.str = "false" THEN Ok([value |-> "Boolean", boolean |-> FALSE])
                ELSE Panic
          [] child.rule = "null" -> Ok([value |-> "Null"])
          [] OTHER -> Panic

\* ---- object literals handed to parse_value2
ValuePair(child) == Node("value", << child >>)

ObjectKeys == {"x", "y"}

ObjectPairs ==
    LET \* null  true  E  $v
        ScalarValues ==
            { ValuePair(Leaf("null", "null")), ValuePair(Leaf("boolean", "true")),
              ValuePair(Leaf("name", "E")),
              ValuePair(Node("variable", << Leaf("name", "v") >>)) }
    IN
    { Node("pair", << Leaf("name", k), v >>) : k \in ObjectKeys, v \in ScalarValues }

ObjectLiterals ==
    { [kind |-> "object", pair |-> ValuePair(Node("object", ps))]
        : ps \in SeqsUpTo(ObjectPairs, MaxPairs) }

\* ---- int and float literals handed to parse_value2

NumberLiterals ==
    LET IntTexts ==
            LET DigitRuns ==
                    LET \* An int pair is an optional '-' and a run of digits of any length; the
                        \* literals below stand around the ends of the i64 range.
                        ReplaceAt(ds, k, d) == [i \in 1..Len(ds) |-> IF i = k THEN d ELSE ds[i]]
                    IN
                    { << 48 >>, << 55 >>, << 52, 50 >>, I64MaxDigits \o << 48 >> }
                    \cup { ReplaceAt(I64MaxDigits, k, d) : k \in {1, 19}, d \in 49..57 }
            IN
            DigitRuns \cup { << Minus >> \o ds : ds \in DigitRuns }
        \* 1.5 and 1e400
        FloatTexts == { "1.5", "1e400" }
    IN
    { [kind |-> "number", pair |-> ValuePair(Leaf("int", t))] : t \in IntTexts }
    \cup { [kind |-> "number", pair |-> ValuePair(Leaf("float", t))] : t \in FloatTexts }

\* ----------------------------------------------------------- parse_type
\* variant of ParseType: the nonnull_type arm builds a List and the
\* list_type arm a NonNull
RECURSIVE ParseType_SwappedArms(_)
ParseType_SwappedArms(pair) ==
    LET child == pair.inner[1]
    IN  CASE child.rule = "nonnull_type" ->
                [type |-> "List", of |-> ParseType_SwappedArms(child)]
          [] child.rule = "list_type" ->
                [type |-> "NonNull", of |-> ParseType_SwappedArms(child)]
          [] child.rule = "name" -> [type |-> "Named", name |-> child.str]
          [] child.rule = "type_" -> ParseType_SwappedArms(child)

\* parse_type: dispatch on the first child of the pair
RECURSIVE ParseType(_)
ParseType(pair) ==
    LET child == pair.inner[1]
    IN  CASE child.rule = "nonnull_type" -> [type |-> "NonNull", of |-> ParseType(child)]
          [] child.rule = "list_type" -> [type |-> "List", of |-> ParseType(child)]
          [] child.rule = "name" -> [type |-> "Named", name |-> child.str]
          [] child.rule = "type_" -> ParseType(child)

\* impl fmt::Display for Type, as the sequence of tokens written
RECURSIVE Display(_)
Display(ty) ==
    CASE ty.type = "Named" -> << ty.name >>
      [] ty.type = "List" -> << "[" >> \o Display(ty.of) \o << "]" >>
      [] ty.type = "NonNull" -> Display(ty.of) \o << "!" >>

\* ---- type references handed to parse_type

RECURSIVE TypePairs(_)
TypePairs(depth) ==
    LET NamePairs ==
            LET \* type_ is a nonnull_type, a list_type or a name; a list_type brackets a
                \* type_; a nonnull_type is a list_type or a name followed by `!`
                TypeNames == {"T", "U"}
            IN
            { Leaf("name", n) : n \in TypeNames }
        nullable == IF depth = 0 THEN NamePairs
                    ELSE NamePairs
                         \cup { Node("list_type", << t >>) : t \in TypePairs(depth - 1) }
    IN  { Node("type_", << x >>) : x \in nullable }
        \cup { Node("type_", << Node("nonnull_type", << x >>) >>) : x \in nullable }

\* Pair::as_str of a type pair, as the sequence of its tokens
RECURSIVE TypeText(_)
TypeText(pair) ==
    CASE pair.rule = "name" -> << pair.str >>
      [] pair.rule = "type_" -> TypeText(pair.inner[1])
      [] pair.rule = "list_type" -> << "[" >> \o TypeText(pair.inner[1]) \o << "]" >>
      [] pair.rule = "nonnull_type" -> TypeText(pair.inner[1]) \o << "!" >>

TypeLiterals == { [kind |-> "type", pair |-> t] : t \in TypePairs(MaxTypeDepth) }

\* ------------------------------------------ parse_query with its errors
\* The loop of parse_arguments over the string values of a field's
\* arguments: `?` returns the first error.
RECURSIVE ParseArguments(_, _)
ParseArguments(strings, arguments) ==
    IF strings = << >> THEN Ok(arguments)
    ELSE LET v == ParseValue2(ValuePair(Head(strings)))
         IN  IF ~v.ok THEN v
             ELSE ParseArguments(Tail(strings), Append(arguments, v.value))

\* parse_selection_set of `{ f(..) }`, packed as a shorthand operation; the
\* error of an argument is returned by `?`
TransformDefinition(pair, at) ==
    LET args == ParseArguments(pair.strings, << >>)
    IN  IF ~args.ok THEN args
        ELSE Ok([def |-> "Operation", op |-> "SelectionSet",
                 selection_set |->
                    [pos |-> at,
                     items |-> << [selection |-> "Field", name |-> "f",
                                   arguments |-> args.value,
                                   selection_set |-> << >>] >>]])

\* variant of ParseQueryLoop: a definition that fails is left out and the
\* loop goes on
RECURSIVE ParseQueryLoop_SkipFailed(_, _, _)
ParseQueryLoop_SkipFailed(pairs, defs, visited) ==
    IF visited = Len(pairs)
    THEN [result |-> Ok([definitions |-> defs, fragments |-> EmptyMap,
                         current_operation |-> None]),
          visited |-> visited]
    ELSE LET d == TransformDefinition(pairs[visited + 1], visited + 1)
         IN  ParseQueryLoop_SkipFailed(pairs,
                                       IF d.ok THEN Append(defs, d.value) ELSE defs,
                                       visited + 1)

\* the `for pair in document_pair.into_inner()` loop of parse_query and the
\* Ok(Document { .. }) after it; visited counts the pairs the loop reached
RECURSIVE ParseQueryLoop(_, _, _)
ParseQueryLoop(pairs, defs, visited) ==
    IF visited = Len(pairs)
    THEN [result |-> Ok([definitions |-> defs, fragments |-> EmptyMap,
                         current_operation |-> None]),
          visited |-> visited]
    ELSE LET d == TransformDefinition(pairs[visited + 1], visited + 1)
         IN  IF ~d.ok THEN [result |-> d, visited |-> visited + 1]
             ELSE ParseQueryLoop(pairs, Append(defs, d.value), visited + 1)

\* ---- documents whose fields take string arguments

\* the definition on line `at` with its strings at columns 1, 2, ..
DefinitionWithStrings(uss, at) ==
    LET StringPair(us, p) ==
            [rule |-> "string", units |-> us, start |-> p,
             text |-> << Quote >> \o Flatten(us) \o << Quote >>]
    IN
    [rule |-> "selection_set",
     strings |-> [j \in 1..Len(uss) |-> StringPair(uss[j], [line |-> at, column |-> j])]]

DocumentLiterals ==
    LET RECURSIVE TotalLen(_)
        TotalLen(ls) == IF ls = << >> THEN 0 ELSE Len(Head(ls)) + TotalLen(Tail(ls))
        ArgumentLists ==
            LET \* "a"  "\q"  "\u00Z1"
                ArgumentUnits ==
                    { << PlainUnit(97) >>, << EscapeUnit(113) >>, << UnicodeUnit(<< 48, 48, 90, 49 >>) >> }
            IN
            SeqsUpTo(ArgumentUnits, MaxArgs) \ { << >> }
    IN
    { [kind |-> "document",
       pairs |-> [i \in 1..Len(d) |-> DefinitionWithStrings(d[i], i)]]
        : d \in { ls \in SeqsUpTo(ArgumentLists, MaxArgDefs) : TotalLen(ls) <= MaxStrings } }

\* ------------------------------------------------ parse_type_condition
\* PositionCalculator::new
PcNew == [consumed |-> 0, pos |-> 0, line |-> 1, column |-> 1]

\* PositionCalculator::step as a function of the calculator: the calculator
\* after the call; its line and column are the Pos returned
PcStep(pc, offset, text) ==
    LET c == StepLoop([consumed |-> pc.consumed, line |-> pc.line,
                       column |-> pc.column, done |-> FALSE],
                      offset - pc.pos, text)
    IN  [consumed |-> c.consumed, pos |-> offset, line |-> c.line, column |-> c.column]

PosOf(pc) == [line |-> pc.line, column |-> pc.column]

\* parse_type_condition: the first name child is stepped to twice, once for
\* the TypeCondition and once for the name inside it
ParseTypeCondition(pair, pc, text) ==
    LET name == pair.inner[1]
        pc1 == PcStep(pc, name.start, text)
        pc2 == PcStep(pc1, name.start, text)
    IN  Ok([pos |-> PosOf(pc1),
            node |-> [on |-> [pos |-> PosOf(pc2), node |-> name.str]]])

\* ---- type conditions handed to parse_type_condition

TypeConditionAt(t, i, j) ==
    [kind |-> "type_condition", text |-> t,
     pair |-> [rule |-> "type_condition", start |-> i - 1,
               inner |-> << [rule |-> "name", start |-> j - 1, str |-> "T"] >>]]

TypeConditionLiterals ==
    LET TypeConditionPlaces ==
            LET \* `on T` inside a text of one-byte characters and line feeds: the
                \* type_condition pair starts at its `on` keyword, the name pair after it
                PlainTexts == SeqsUpTo({"a", "LF"}, MaxTextLen)
            IN
            { p \in PlainTexts \X (1..MaxTextLen) \X (1..MaxTextLen) :
                /\ p[2] < p[3]
                /\ p[3] <= Len(p[1])
                /\ p[1][p[2]] = "a"
                /\ p[1][p[3]] = "a" }
    IN
    { TypeConditionAt(p[1], p[2], p[3]) : p \in TypeConditionPlaces }

\* ------------------------------------------------- KnownFragmentNames
\* VisitorContext::is_known_fragment: the document defines a fragment of
\* that name
IsKnownFragment(doc, name) ==
    \E i \in 1..Len(doc) : doc[i].def = "Fragment" /\ doc[i].name = name

\* VisitorContext::report_error
ReportError(errors, locations, message) ==
    Append(errors, [locations |-> locations, message |-> message])

\* variant of EnterFragmentSpread: the `!` of the test is missing
EnterFragmentSpread_Inverted(doc, errors, fragment_spread) ==
    IF IsKnownFragment(doc, fragment_spread.fragment_name)
    THEN ReportError(errors, << fragment_spread.pos >>,
                     << "Unknown fragment: ", fragment_spread.fragment_name >>)
    ELSE errors

\* KnownFragmentNames::enter_fragment_spread
EnterFragmentSpread(doc, errors, fragment_spread) ==
    IF ~IsKnownFragment(doc, fragment_spread.fragment_name)
    THEN ReportError(errors, << fragment_spread.pos >>,
                     << "Unknown fragment: ", fragment_spread.fragment_name >>)
    ELSE errors

\* the visitor's walk over a selection set: fields and inline fragments are
\* descended into, every fragment spread is handed to the rule
RECURSIVE VisitSelections(_, _, _)
VisitSelections(doc, errors, items) ==
    IF items = << >> THEN errors
    ELSE LET item == Head(items)
             after == IF item.selection = "FragmentSpread"
                      THEN EnterFragmentSpread(doc, errors, item)
                      ELSE VisitSelections(doc, errors, item.selection_set)
         IN  VisitSelections(doc, after, Tail(items))

\* the visitor's walk over the definitions from the k-th on
RECURSIVE VisitDefinitions(_, _, _)
VisitDefinitions(doc, errors, k) ==
    IF k > Len(doc) THEN errors
    ELSE VisitDefinitions(doc, VisitSelections(doc, errors, doc[k].selection_set), k + 1)

\* ---- documents handed to the rule

RuleDocument(items, frags) ==
    LET \* `{ human { <items> } } fragment .. { name <spread> } ..`: the k-th item
        \* of the field stands at line 1, column k, the spread of the j-th fragment
        \* definition at line 1 + j, column 1
        SpreadAt(n, p) == [selection |-> "FragmentSpread", fragment_name |-> n, pos |-> p]
        FragmentOf(c, p) ==
            LET NameField == [selection |-> "Field", name |-> "name", selection_set |-> << >>]
            IN
            [def |-> "Fragment", name |-> c.name,
             selection_set |-> IF c.spread = None THEN << NameField >>
                               ELSE << NameField, SpreadAt(c.spread.value, p) >>]
        ItemOf(c, p) ==
            IF c.place = "direct" THEN SpreadAt(c.name, p)
            ELSE [selection |-> "InlineFragment", selection_set |-> << SpreadAt(c.name, p) >>]
        \* the spreads of a document, known by construction
        SpreadsOf ==
            { [name |-> items[k].name, pos |-> [line |-> 1, column |-> k]] : k \in 1..Len(items) }
            \cup { [name |-> frags[j].spread.value, pos |-> [line |-> 1 + j, column |-> 1]]
                    : j \in { i \in 1..Len(frags) : frags[i].spread # None } }
    IN
    [kind |-> "validation",
     spreads |-> SpreadsOf,
     defined |-> { frags[j].name : j \in 1..Len(frags) },
     doc |-> << [def |-> "Operation", op |-> "SelectionSet",
                 selection_set |->
                    << [selection |-> "Field", name |-> "human",
                        selection_set |->
                           [k \in 1..Len(items) |->
                              ItemOf(items[k], [line |-> 1, column |-> k])]] >>] >>
                \o [j \in 1..Len(frags) |->
                      FragmentOf(frags[j], [line |-> 1 + j, column |-> 1])]]

RuleDocuments ==
    LET \* `fragment F|G on T { name }`, or with `...F` or `...U` after the name
        FragmentChoices ==
            { [name |-> n, spread |-> sp] : n \in FragmentNames, sp \in {None, Some("F"), Some("U")} }
        \* `...F`  `...U`  `... on T { ...G }`  `... on T { ...U }`
        ItemChoices ==
            { [place |-> "direct", name |-> "F"], [place |-> "direct", name |-> "U"],
              [place |-> "inline", name |-> "G"], [place |-> "inline", name |-> "U"] }
    IN
    { RuleDocument(items, frags) :
        items \in SeqsUpTo(ItemChoices, MaxSpreads),
        frags \in { fs \in SeqsUpTo(FragmentChoices, MaxSpreads) :
                      \A i, j \in 1..Len(fs) : fs[i].name = fs[j].name => i = j } }

\* ------------------------------------- the calls of PositionCalculator::step
\* A grammar pair here is [rule, start, end, inner]: its rule, the byte
\* offsets of its span and its children in source order.  Each operator
\* below lists the offsets the function of that name hands to pc.step, in
\* call order.
RECURSIVE ConcatAll(_)
ConcatAll(ss) == IF ss = << >> THEN << >> ELSE Head(ss) \o ConcatAll(Tail(ss))

RECURSIVE StepsOfValue2(_)
RECURSIVE StepsOfObjectValue(_)
RECURSIVE StepsOfArrayValue(_)
RECURSIVE StepsOfSelectionSet(_)
RECURSIVE StepsOfField(_)
RECURSIVE StepsOfInlineFragment(_)

\* parse_variable: the name inside `$name`
StepsOfVariable(pair) ==
    LET names == { i \in 1..Len(pair.inner) : pair.inner[i].rule = "name" }
    IN  IF names = {} THEN << >>
        ELSE << pair.inner[CHOOSE i \in names : \A j \in names : i <= j].start >>

\* parse_value2: only a variable is positioned
StepsOfValue2(pair) ==
    LET p == pair.inner[1]
    IN  CASE p.rule = "object" -> StepsOfObjectValue(p)
          [] p.rule = "array" -> StepsOfArrayValue(p)
          [] p.rule = "variable" -> StepsOfVariable(p)
          [] OTHER -> << >>

\* parse_object_pair: the name is not positioned
StepsOfObjectPair(pair) ==
    ConcatAll([i \in 1..Len(pair.inner) |->
                 IF pair.inner[i].rule = "value" THEN StepsOfValue2(pair.inner[i])
                 ELSE << >>])

\* parse_object_value
StepsOfObjectValue(pair) ==
    ConcatAll([i \in 1..Len(pair.inner) |-> StepsOfObjectPair(pair.inner[i])])

\* parse_array_value
StepsOfArrayValue(pair) ==
    ConcatAll([i \in 1..Len(pair.inner) |-> StepsOfValue2(pair.inner[i])])

\* variant of StepsOfPair: the value is positioned before the name
StepsOfPair_ValueFirst(pair) ==
    ConcatAll([i \in 1..Len(pair.inner) |->
                 LET c == pair.inner[Len(pair.inner) + 1 - i]
                 IN  IF c.rule = "name" THEN << c.start >>
                     ELSE << c.start >> \o StepsOfValue2(c)])

\* parse_pair: name, then value
StepsOfPair(pair) ==
    ConcatAll([i \in 1..Len(pair.inner) |->
                 LET c == pair.inner[i]
                 IN  IF c.rule = "name" THEN << c.start >>
                     ELSE << c.start >> \o StepsOfValue2(c)])

\* parse_arguments
StepsOfArguments(pair) ==
    ConcatAll([i \in 1..Len(pair.inner) |-> StepsOfPair(pair.inner[i])])

\* parse_directive
StepsOfDirective(pair) ==
    << pair.start >>
    \o ConcatAll([i \in 1..Len(pair.inner) |->
                    LET c == pair.inner[i]
                    IN  IF c.rule = "name" THEN << c.start >> ELSE StepsOfArguments(c)])

\* parse_directives
StepsOfDirectives(pair) ==
    ConcatAll([i \in 1..Len(pair.inner) |-> StepsOfDirective(pair.inner[i])])

\* parse_alias
StepsOfAlias(pair) ==
    LET names == { i \in 1..Len(pair.inner) : pair.inner[i].rule = "name" }
    IN  IF names = {} THEN << >>
        ELSE << pair.inner[CHOOSE i \in names : \A j \in names : i <= j].start >>

\* parse_type_condition: the name is stepped to twice
StepsOfTypeCondition(pair) ==
    LET names == { i \in 1..Len(pair.inner) : pair.inner[i].rule = "name" }
    IN  IF names = {} THEN << >>
        ELSE LET n == pair.inner[CHOOSE i \in names : \A j \in names : i <= j]
             IN  << n.start, n.start >>

\* parse_fragment_spread
StepsOfFragmentSpread(pair) ==
    << pair.start >>
    \o ConcatAll([i \in 1..Len(pair.inner) |->
                    LET c == pair.inner[i]
                    IN  IF c.rule = "name" THEN << c.start >> ELSE StepsOfDirectives(c)])

\* parse_field
StepsOfField(pair) ==
    << pair.start >>
    \o ConcatAll([i \in 1..Len(pair.inner) |->
                    LET c == pair.inner[i]
                    IN  CASE c.rule = "alias" -> StepsOfAlias(c)
                          [] c.rule = "name" -> << c.start >>
                          [] c.rule = "arguments" -> StepsOfArguments(c)
                          [] c.rule = "directives" -> StepsOfDirectives(c)
                          [] c.rule = "selection_set" -> StepsOfSelectionSet(c)])

\* parse_inline_fragment
StepsOfInlineFragment(pair) ==
    << pair.start >>
    \o ConcatAll([i \in 1..Len(pair.inner) |->
                    LET c == pair.inner[i]
                    IN  CASE c.rule = "type_condition" -> StepsOfTypeCondition(c)
                          [] c.rule = "directives" -> StepsOfDirectives(c)
                          [] c.rule = "selection_set" -> StepsOfSelectionSet(c)])

\* parse_selection_set: the children of its `selection` children
StepsOfSelectionSet(pair) ==
    << pair.start >>
    \o ConcatAll([i \in 1..Len(pair.inner) |->
                    LET c == pair.inner[i].inner[1]
                    IN  CASE c.rule = "field" -> StepsOfField(c)
                          [] c.rule = "fragment_spread" -> StepsOfFragmentSpread(c)
                          [] c.rule = "inline_fragment" -> StepsOfInlineFragment(c)])

\* parse_fragment_definition
StepsOfFragmentDefinition(pair) ==
    << pair.start >>
    \o ConcatAll([i \in 1..Len(pair.inner) |->
                    LET c == pair.inner[i]
                    IN  CASE c.rule = "name" -> << c.start >>
                          [] c.rule = "type_condition" -> StepsOfTypeCondition(c)
                          [] c.rule = "directives" -> StepsOfDirectives(c)
                          [] c.rule = "selection_set" -> StepsOfSelectionSet(c)])

\* parse_default_value
StepsOfDefaultValue(pair) ==
    LET values == { i \in 1..Len(pair.inner) : pair.inner[i].rule = "value" }
    IN  IF values = {} THEN << >>
        ELSE StepsOfValue2(pair.inner[CHOOSE i \in values : \A j \in values : i <= j])

\* variant of StepsOfVariableDefinition: the definition's own position is
\* taken when the node is built, after the loop
StepsOfVariableDefinition_PosAfterLoop(pair) ==
    ConcatAll([i \in 1..Len(pair.inner) |->
                 LET c == pair.inner[i]
                 IN  CASE c.rule = "variable" -> StepsOfVariable(c)
                       [] c.rule = "type_" -> << c.start >>
                       [] c.rule = "default_value" ->
                            << c.start >> \o StepsOfDefaultValue(c)])
    \o << pair.start >>

\* parse_variable_definition
StepsOfVariableDefinition(pair) ==
    << pair.start >>
    \o ConcatAll([i \in 1..Len(pair.inner) |->
                    LET c == pair.inner[i]
                    IN  CASE c.rule = "variable" -> StepsOfVariable(c)
                          [] c.rule = "type_" -> << c.start >>
                          [] c.rule = "default_value" ->
                               << c.start >> \o StepsOfDefaultValue(c)])

\* parse_variable_definitions
StepsOfVariableDefinitions(pair) ==
    ConcatAll([i \in 1..Len(pair.inner) |-> StepsOfVariableDefinition(pair.inner[i])])

\* parse_named_operation_definition
StepsOfNamedOperationDefinition(pair) ==
    << pair.start >>
    \o ConcatAll([i \in 1..Len(pair.inner) |->
                    LET c == pair.inner[i]
                    IN  CASE c.rule = "operation_type" -> << >>
                          [] c.rule = "name" -> << c.start >>
                          [] c.rule = "variable_definitions" -> StepsOfVariableDefinitions(c)
                          [] c.rule = "directives" -> StepsOfDirectives(c)
                          [] c.rule = "selection_set" -> StepsOfSelectionSet(c)])

\* parse_query's loop
StepsOfQuery(document_pair) ==
    ConcatAll([i \in 1..Len(document_pair.inner) |->
                 LET c == document_pair.inner[i]
                 IN  CASE c.rule = "named_operation_definition" ->
                            StepsOfNamedOperationDefinition(c)
                       [] c.rule = "selection_set" -> StepsOfSelectionSet(c)
                       [] c.rule = "fragment_definition" -> StepsOfFragmentDefinition(c)
                       [] c.rule = "EOI" -> << >>])

\* ---- pair trees of grammar-accepted texts
\* a pair before its span is known
Shape(rule, inner) == [rule |-> rule, inner |-> inner]

\* spans for a shape that starts at byte `at`, siblings one byte apart
RECURSIVE Layout(_, _)
RECURSIVE LayoutAll(_, _)
Layout(shape, at) ==
    LET \* bytes of a pair's text before its first child: `{`, `(`, `[`, `@`, `$`,
        \* `=`, `...`, `on `, `fragment `; a pair whose first child opens it has none
        OpenWidth(rule) ==
            CASE rule \in {"selection_set", "arguments", "variable_definitions", "array",
                           "object", "directive", "variable", "default_value"} -> 1
              [] rule \in {"fragment_spread", "inline_fragment", "type_condition"} -> 3
              [] rule = "fragment_definition" -> 9
              [] OTHER -> 0
        \* bytes after the last child: `}`, `)`, `]`, the `:` of an alias
        CloseWidth(rule) ==
            CASE rule \in {"selection_set", "arguments", "variable_definitions", "array",
                           "object", "alias"} -> 1
              [] OTHER -> 0
        \* bytes of a pair without children: `query`, or a one-letter token
        TokenWidth(rule) == IF rule = "operation_type" THEN 5 ELSE 1
    IN
    IF shape.inner = << >>
    THEN [rule |-> shape.rule, start |-> at, end |-> at + TokenWidth(shape.rule),
          inner |-> << >>]
    ELSE LET kids == LayoutAll(shape.inner, at + OpenWidth(shape.rule))
         IN  [rule |-> shape.rule, start |-> at,
              end |-> kids.end + CloseWidth(shape.rule), inner |-> kids.pairs]

LayoutAll(shapes, at) ==
    IF shapes = << >> THEN [pairs |-> << >>, end |-> at]
    ELSE LET h == Layout(Head(shapes), at)
             rest == LayoutAll(Tail(shapes), h.end + 1)
         IN  [pairs |-> << h >> \o rest.pairs,
              end |-> IF Tail(shapes) = << >> THEN h.end ELSE rest.end]

NameShape == Shape("name", << >>)

VariableShape == Shape("value", << Shape("variable", << NameShape >>) >>)

ValueShapes ==
    LET \* 1   $v   [$v 1]   {n: $v}   [{n: $v} $v]
        IntShape == Shape("value", << Shape("int", << >>) >>)
        ObjectShape ==
            Shape("value", << Shape("object", << Shape("pair", << NameShape, VariableShape >>) >>) >>)
        NestedShape == Shape("value", << Shape("array", << ObjectShape, VariableShape >>) >>)
        ArrayShape == Shape("value", << Shape("array", << VariableShape, IntShape >>) >>)
    IN
    {IntShape, VariableShape, ArrayShape, ObjectShape, NestedShape}

\* (n: v, ..), or nothing
ArgumentsOf(vs) ==
    << Shape("arguments", [i \in 1..Len(vs) |-> Shape("pair", << NameShape, vs[i] >>)]) >>

\* nothing,  @d,  @d(n: $v) @d
OptDirectives ==
    { << >>,
      << Shape("directives", << Shape("directive", << NameShape >>) >>) >>,
      << Shape("directives",
               << Shape("directive", << NameShape >> \o ArgumentsOf(<< VariableShape >>)),
                  Shape("directive", << NameShape >>) >>) >> }

SelectionSetOf(items) ==
    Shape("selection_set", [i \in 1..Len(items) |-> Shape("selection", << items[i] >>)])

LeafField == Shape("field", << NameShape >>)

\* nothing,  { x },  { ...F @d x },  { ... on T @d { x } x },  { ... { x } }
OptSelectionSets ==
    { << >>,
      << SelectionSetOf(<< LeafField >>) >>,
      << SelectionSetOf(<< Shape("fragment_spread",
                                 << NameShape,
                                    Shape("directives",
                                          << Shape("directive", << NameShape >>) >>) >>),
                           LeafField >>) >>,
      << SelectionSetOf(<< Shape("inline_fragment",
                                 << Shape("type_condition", << NameShape >>),
                                    Shape("directives",
                                          << Shape("directive", << NameShape >>) >>),
                                    SelectionSetOf(<< LeafField >>) >>),
                           LeafField >>) >>,
      << SelectionSetOf(<< Shape("inline_fragment",
                                 << SelectionSetOf(<< LeafField >>) >>) >>) >> }

\* [alias:] name [arguments] [directives] [selection set]
FieldShapes ==
    LET OptArguments == { << >> } \cup { ArgumentsOf(vs) : vs \in SeqsUpTo(ValueShapes, MaxArgs) \ { << >> } }
    IN
    { Shape("field", al \o << NameShape >> \o ar \o d \o ss) :
        al \in { << >>, << Shape("alias", << NameShape >>) >> },
        ar \in OptArguments, d \in OptDirectives, ss \in OptSelectionSets }

OptVariableDefinitions ==
    LET \* $v: T [= value]
        VariableDefinitionOf(dv) ==
            Shape("variable_definition",
                  << Shape("variable", << NameShape >>), Shape("type_", << NameShape >>) >> \o dv)
        OptDefaultValues ==
            { << >> } \cup { << Shape("default_value", << v >>) >> : v \in ValueShapes }
    IN
    { << >> }
    \cup { << Shape("variable_definitions", << VariableDefinitionOf(dv) >>) >>
            : dv \in OptDefaultValues }
    \cup { << Shape("variable_definitions",
                    << VariableDefinitionOf(dv), VariableDefinitionOf(<< >>) >>) >>
            : dv \in OptDefaultValues }

\* query [name] [variable definitions] [directives] { x }
NamedOperationShapes ==
    { Shape("named_operation_definition",
            << Shape("operation_type", << >>) >> \o nm \o vd \o d
            \o << SelectionSetOf(<< LeafField >>) >>) :
        nm \in { << >>, << NameShape >> }, vd \in OptVariableDefinitions,
        d \in OptDirectives }

\* fragment F on T [directives] { x }
FragmentDefinitionShapes ==
    { Shape("fragment_definition",
            << NameShape, Shape("type_condition", << NameShape >>) >> \o d
            \o << SelectionSetOf(<< LeafField >>) >>) :
        d \in OptDirectives }

\* the pair trees handed to parse_query and to parse_value
TreeLiterals ==
    LET EOI == Shape("EOI", << >>)
        DocumentShapes ==
            { Shape("document", << SelectionSetOf(<< f >>), EOI >>) : f \in FieldShapes }
            \cup { Shape("document", << o, EOI >>) : o \in NamedOperationShapes }
            \cup { Shape("document", << o, f, EOI >>) :
                     o \in NamedOperationShapes, f \in FragmentDefinitionShapes }
    IN
    { [kind |-> "tree", entry |-> "parse_query", pair |-> Layout(d, 0)] : d \in DocumentShapes }
    \cup { [kind |-> "tree", entry |-> "parse_value", pair |-> Layout(v, 0)]
            : v \in ValueShapes }

\* ------------------------------------------------------- get_argument
\* parse_pair on `name: value`: (Positioned<&str>, Positioned<Value>)
ParsePair(pair) ==
    << [node |-> pair.name, pos |-> pair.start],
       [node |-> pair.value, pos |-> pair.start] >>

\* parse_arguments: every pair is appended to the Vec
RECURSIVE ParseArgumentPairs(_, _)
ParseArgumentPairs(pairs, arguments) ==
    IF pairs = << >> THEN arguments
    ELSE ParseArgumentPairs(Tail(pairs), Append(arguments, ParsePair(Head(pairs))))

\* variant of FieldGetArgument: the list is searched from its end (rfind)
RECURSIVE FieldGetArgument_FromEnd(_, _)
FieldGetArgument_FromEnd(arguments, name) ==
    IF arguments = << >> THEN None
    ELSE IF arguments[Len(arguments)][1].node = name
         THEN Some(arguments[Len(arguments)][2])
         ELSE FieldGetArgument_FromEnd(SubSeq(arguments, 1, Len(arguments) - 1), name)

\* Field::get_argument: iter().find(..).map(|item| &item.1)
RECURSIVE FieldGetArgument(_, _)
FieldGetArgument(arguments, name) ==
    IF arguments = << >> THEN None
    ELSE IF Head(arguments)[1].node = name THEN Some(Head(arguments)[2])
         ELSE FieldGetArgument(Tail(arguments), name)

\* Directive::get_argument: iter().find(..).map(|item| &item.1)
RECURSIVE DirectiveGetArgument(_, _)
DirectiveGetArgument(arguments, name) ==
    IF arguments = << >> THEN None
    ELSE IF Head(arguments)[1].node = name THEN Some(Head(arguments)[2])
         ELSE DirectiveGetArgument(Tail(arguments), name)

\* ---- argument lists of a field or a directive, and a name to look up

ArgumentPairsOf(names) ==
    [k \in 1..Len(names) |-> [rule |-> "pair", name |-> names[k], value |-> k, start |-> k]]

ArgumentLiterals ==
    LET \* `(x: 1, y: 2, x: 3)`: the k-th argument has the value k and starts at k
        ArgumentNames == {"x", "y"}
    IN
    { [kind |-> "arguments", owner |-> o, pairs |-> ArgumentPairsOf(ns), name |-> n] :
        o \in {"Field", "Directive"},
        ns \in SeqsUpTo(ArgumentNames, MaxPairs),
        n \in ArgumentNames \cup {"z"} }

\* ------------------------------------------------------------- actions
NoCalculator ==
    /\ input = << >> /\ consumed = 0 /\ pos = 0 /\ line = 1 /\ column = 1
    /\ stepped = None

\* no literal is being transformed
NoValue == lit = None /\ out = None

\* no parse_query call is in progress
NoRuns == runs = << >> /\ calcs = << >> /\ lists = << >>

Init ==
    /\ phase = "source"
    /\ source \in Sources
    /\ definitions = << >>
    /\ fragments = EmptyMap
    /\ current_operation = None
    /\ calls = 0
    /\ operation_name = None
    /\ ret = None
    /\ first = None
    /\ succeeded = FALSE
    /\ last_call = "none"
    /\ access = NotCalled
    /\ drained = << >>
    /\ NoCalculator
    /\ NoValue
    /\ NoRuns

\* parse_query on grammar-accepted text: Ok(Document { .. })
ParseQuery ==
    /\ phase = "source"
    /\ phase' = "document"
    /\ definitions' = ParseDefinitions(source)
    /\ fragments' = EmptyMap
    /\ current_operation' = None
    /\ last_call' = "parse_query"
    /\ UNCHANGED << source, calls, operation_name, ret, first, succeeded, access >>
    /\ UNCHANGED pcvars
    /\ UNCHANGED valvars
    /\ UNCHANGED runvars
    /\ UNCHANGED drained

\* variant of RetainOperation: the definitions are iterated, not drained
RetainOperation_IterNotDrain ==
    /\ phase = "document"
    /\ calls < MaxCalls
    /\ \E requested \in OptNames :
         LET st == RetainResult(definitions, current_operation, requested)
             r == IsSome(st.cur)
         IN  /\ definitions' = definitions
             /\ current_operation' = st.cur
             /\ fragments' = st.frags
             /\ drained' = st.seen
             /\ ret' = Some(r)
             /\ operation_name' = requested
             /\ succeeded' = (succeeded \/ r)
             /\ first' = IF calls = 0
                         THEN Some([fragments |-> st.frags, current_operation |-> st.cur,
                                    ret |-> r])
                         ELSE first
    /\ calls' = calls + 1
    /\ last_call' = "retain_operation"
    /\ UNCHANGED << phase, source, access >>
    /\ UNCHANGED pcvars
    /\ UNCHANGED valvars
    /\ UNCHANGED runvars

\* Document::retain_operation(operation_name)
RetainOperation ==
    /\ phase = "document"
    /\ calls < MaxCalls
    /\ \E requested \in OptNames :
         LET st == RetainResult(definitions, current_operation, requested)
             r == IsSome(st.cur)
         IN  /\ definitions' = << >>
             /\ current_operation' = st.cur
             /\ fragments' = st.frags
             /\ drained' = st.seen
             /\ ret' = Some(r)
             /\ operation_name' = requested
             /\ succeeded' = (succeeded \/ r)
             /\ first' = IF calls = 0
                         THEN Some([fragments |-> st.frags, current_operation |-> st.cur,
                                    ret |-> r])
                         ELSE first
    /\ calls' = calls + 1
    /\ last_call' = "retain_operation"
    /\ UNCHANGED << phase, source, access >>
    /\ UNCHANGED pcvars
    /\ UNCHANGED valvars
    /\ UNCHANGED runvars

\* Document::current_operation()
CurrentOperation ==
    /\ phase = "document"
    /\ access' = CurrentOperationCall(current_operation)
    /\ phase' = IF access'.panic THEN "panicked" ELSE phase
    /\ last_call' = "current_operation"
    /\ UNCHANGED << source, definitions, fragments, current_operation, calls,
                    operation_name, ret, first, succeeded >>
    /\ UNCHANGED pcvars
    /\ UNCHANGED valvars
    /\ UNCHANGED runvars
    /\ UNCHANGED drained

Next == ParseQuery \/ RetainOperation \/ CurrentOperation

Spec == Init /\ [][Next]_vars

\* --------------------------------------- the position calculator alone
NoDocument ==
    /\ source = << >> /\ definitions = << >> /\ fragments = EmptyMap
    /\ current_operation = None /\ calls = 0 /\ operation_name = None
    /\ ret = None /\ first = None /\ succeeded = FALSE /\ access = NotCalled
    /\ drained = << >>

\* PositionCalculator::new(input)
InitPos ==
    /\ phase = "text"
    /\ NoDocument
    /\ NoValue
    /\ NoRuns
    /\ last_call = "new"
    /\ input \in Texts
    /\ consumed = 0
    /\ pos = 0
    /\ line = 1
    /\ column = 1
    /\ stepped = None

\* PositionCalculator::step(pair), for a pair that starts at or after the
\* previous one (debug_assert!(pos >= self.pos))
Step ==
    /\ phase = "text"
    /\ \E offset \in NodeOffsets(input) :
         /\ offset >= pos
         /\ LET c == StepLoop([consumed |-> consumed, line |-> line,
                               column |-> column, done |-> FALSE],
                              offset - pos, input)
            IN  /\ consumed' = c.consumed
                /\ line' = c.line
                /\ column' = c.column
                /\ pos' = offset
                /\ stepped' = Some([offset |-> offset,
                                    pos |-> [line |-> c.line, column |-> c.column]])
    /\ last_call' = "step"
    /\ UNCHANGED << phase, input, source, definitions, fragments, current_operation,
                    calls, operation_name, ret, first, succeeded, access >>
    /\ UNCHANGED valvars
    /\ UNCHANGED runvars
    /\ UNCHANGED drained

NextPos == Step

SpecPos == InitPos /\ [][NextPos]_vars

\* ------------------------------------------------ the AST builder alone
Literals ==
    StringLiterals \cup ObjectLiterals \cup NumberLiterals \cup TypeLiterals
    \cup DocumentLiterals \cup TypeConditionLiterals \cup RuleDocuments
    \cup TreeLiterals \cup ArgumentLiterals

\* a grammar pair handed to the AST builder
InitParse ==
    /\ phase = "pair"
    /\ NoDocument
    /\ NoCalculator
    /\ NoRuns
    /\ last_call = "none"
    /\ lit \in Literals
    /\ out = None

\* parse_value2 on a string pair
ParseString ==
    /\ phase = "pair"
    /\ lit.kind = "string"
    /\ out = None
    /\ out' = Some(ParseStringValue(lit))
    /\ last_call' = "parse_value2"
    /\ UNCHANGED << phase, lit, source, definitions, fragments, current_operation,
                    calls, operation_name, ret, first, succeeded, access >>
    /\ UNCHANGED pcvars
    /\ UNCHANGED runvars
    /\ UNCHANGED drained

\* parse_value2 on an object pair
ParseObject ==
    /\ phase = "pair"
    /\ lit.kind = "object"
    /\ out = None
    /\ out' = Some(ParseValue2(lit.pair))
    /\ last_call' = "parse_value2"
    /\ UNCHANGED << phase, lit, source, definitions, fragments, current_operation,
                    calls, operation_name, ret, first, succeeded, access >>
    /\ UNCHANGED pcvars
    /\ UNCHANGED runvars
    /\ UNCHANGED drained

\* parse_value2 on an int or float pair
ParseNumber ==
    /\ phase = "pair"
    /\ lit.kind = "number"
    /\ out = None
    /\ out' = Some(ParseValue2(lit.pair))
    /\ last_call' = "parse_value2"
    /\ UNCHANGED << phase, lit, source, definitions, fragments, current_operation,
                    calls, operation_name, ret, first, succeeded, access >>
    /\ UNCHANGED pcvars
    /\ UNCHANGED runvars
    /\ UNCHANGED drained

\* parse_type on the type_ pair of a variable definition
ParseTypeRef ==
    /\ phase = "pair"
    /\ lit.kind = "type"
    /\ out = None
    /\ out' = Some(Ok(ParseType(lit.pair)))
    /\ last_call' = "parse_type"
    /\ UNCHANGED << phase, lit, source, definitions, fragments, current_operation,
                    calls, operation_name, ret, first, succeeded, access >>
    /\ UNCHANGED pcvars
    /\ UNCHANGED runvars
    /\ UNCHANGED drained

\* parse_query on a document whose fields take string arguments
ParseDocument ==
    /\ phase = "pair"
    /\ lit.kind = "document"
    /\ out = None
    /\ out' = Some(ParseQueryLoop(lit.pairs, << >>, 0))
    /\ last_call' = "parse_query"
    /\ UNCHANGED << phase, lit, source, definitions, fragments, current_operation,
                    calls, operation_name, ret, first, succeeded, access >>
    /\ UNCHANGED pcvars
    /\ UNCHANGED runvars
    /\ UNCHANGED drained

\* parse_type_condition on the type_condition pair of a fragment
ParseTypeCond ==
    /\ phase = "pair"
    /\ lit.kind = "type_condition"
    /\ out = None
    /\ out' = Some(ParseTypeCondition(lit.pair, PcNew, lit.text))
    /\ last_call' = "parse_type_condition"
    /\ UNCHANGED << phase, lit, source, definitions, fragments, current_operation,
                    calls, operation_name, ret, first, succeeded, access >>
    /\ UNCHANGED pcvars
    /\ UNCHANGED runvars
    /\ UNCHANGED drained

\* the KnownFragmentNames rule visiting a parsed document
CheckKnownFragmentNames ==
    LET \* the rule run over a whole document
        CheckRule(doc) == VisitDefinitions(doc, << >>, 1)
    IN
    /\ phase = "pair"
    /\ lit.kind = "validation"
    /\ out = None
    /\ out' = Some(CheckRule(lit.doc))
    /\ last_call' = "enter_fragment_spread"
    /\ UNCHANGED << phase, lit, source, definitions, fragments, current_operation,
                    calls, operation_name, ret, first, succeeded, access >>
    /\ UNCHANGED pcvars
    /\ UNCHANGED runvars
    /\ UNCHANGED drained

\* parse_query or parse_value on a pair tree: the offsets stepped to
ParseTree ==
    /\ phase = "pair"
    /\ lit.kind = "tree"
    /\ out = None
    /\ out' = Some(IF lit.entry = "parse_query" THEN StepsOfQuery(lit.pair)
                   ELSE StepsOfValue2(lit.pair))
    /\ last_call' = lit.entry
    /\ UNCHANGED << phase, lit, source, definitions, fragments, current_operation,
                    calls, operation_name, ret, first, succeeded, access >>
    /\ UNCHANGED pcvars
    /\ UNCHANGED runvars
    /\ UNCHANGED drained

\* parse_arguments for a field or a directive, then get_argument on it
GetArgument ==
    /\ phase = "pair"
    /\ lit.kind = "arguments"
    /\ out = None
    /\ LET arguments == ParseArgumentPairs(lit.pairs, << >>)
       IN  out' = Some([arguments |-> arguments,
                        found |-> IF lit.owner = "Field"
                                  THEN FieldGetArgument(arguments, lit.name)
                                  ELSE DirectiveGetArgument(arguments, lit.name)])
    /\ last_call' = "get_argument"
    /\ UNCHANGED << phase, lit, source, definitions, fragments, current_operation,
                    calls, operation_name, ret, first, succeeded, access >>
    /\ UNCHANGED pcvars
    /\ UNCHANGED runvars
    /\ UNCHANGED drained

NextParse ==
    \/ ParseString \/ ParseObject \/ ParseNumber \/ ParseTypeRef \/ ParseDocument
    \/ ParseTypeCond \/ CheckKnownFragmentNames \/ ParseTree \/ GetArgument

SpecParse == InitParse /\ [][NextParse]_vars

\* ------------------------------------- parse_query calls side by side

RunTexts ==
    LET \* Source texts of documents: "a" opens a definition (`{`), "q" is the
        \* quote of a string that holds the malformed escape \q, "LF" a line break.
        \* A string stands inside a definition, so an "a" precedes every "q".
        RunChars == {"a", "q", "LF"}
    IN
    { t \in SeqsUpTo(RunChars, MaxRunLen) :
        /\ \E i \in 1..Len(t) : t[i] = "a"
        /\ \A j \in 1..Len(t) : t[j] = "q" => \E i \in 1..(j - 1) : t[i] = "a" }

\* the first malformed string of the definition whose text goes on at index
\* i, as the byte offset of its quote
RECURSIVE FirstBadString(_, _)
FirstBadString(text, i) ==
    IF i > Len(text) \/ text[i] = "a" THEN None
    ELSE IF text[i] = "q" THEN Some(i - 1)
    ELSE FirstBadString(text, i + 1)

\* document_pair.into_inner(): the definitions of the text from index i on,
\* in source order, each with its span start
RECURSIVE DocumentPairs(_, _)
DocumentPairs(text, i) ==
    IF i > Len(text) THEN << >>
    ELSE IF text[i] = "a"
         THEN << [rule |-> "selection_set", start |-> i - 1,
                  string |-> FirstBadString(text, i + 1)] >>
              \o DocumentPairs(text, i + 1)
         ELSE DocumentPairs(text, i + 1)

\* pair.as_span().start_pos().line_col() of the pair at a byte offset, in a
\* text of one-byte characters
RECURSIVE LineCol(_, _)
LineCol(text, offset) ==
    IF offset = 0 THEN [line |-> 1, column |-> 1]
    ELSE LET before == LineCol(text, offset - 1)
         IN  IF text[offset] = "LF"
             THEN [line |-> before.line + 1, column |-> 1]
             ELSE [line |-> before.line, column |-> before.column + 1]

\* parse_selection_set on one definition pair with the calculator pc: the
\* calculator after the call and the definition, or the error of its string
TransformPair(pair, pc, text) ==
    LET stepped_pc == PcStep(pc, pair.start, text)
    IN  [pc |-> stepped_pc,
         result |-> IF pair.string # None
                    THEN BadEscape(113, LineCol(text, pair.string.value))
                    ELSE Ok([def |-> "Operation", op |-> "SelectionSet",
                             selection_set |-> [pos |-> PosOf(stepped_pc)]])]

\* parse_query run from its loop's k-th pair on with nothing else running
RECURSIVE ParseQueryFrom(_, _, _, _, _)
ParseQueryFrom(text, pairs, k, pc, defs) ==
    IF k > Len(pairs) THEN Ok([definitions |-> defs])
    ELSE LET t == TransformPair(pairs[k], pc, text)
         IN  IF ~t.result.ok THEN t.result
             ELSE ParseQueryFrom(text, pairs, k + 1, t.pc, Append(defs, t.result.value))

\* parse_query(text) as one call
ParseQueryAlone(text) == ParseQueryFrom(text, DocumentPairs(text, 1), 1, PcNew, << >>)

\* the callers that run parse_query side by side
Callers == {1, 2}

\* variant of CalculatorOf: one process-wide calculator serves every call
CalculatorOf_ProcessWide(caller) == 1

\* `let mut pc = PositionCalculator::new(&source)`: a local of the call
CalculatorOf(caller) == caller

\* variant of ListOf: one process-wide list collects every call's definitions
ListOf_ProcessWide(caller) == 1

\* `let mut definitions = Vec::new()`: a local of the call
ListOf(caller) == caller

InitRuns ==
    /\ phase = "runs"
    /\ NoDocument
    /\ NoCalculator
    /\ NoValue
    /\ last_call = "none"
    /\ runs \in [Callers -> { [text |-> t, stage |-> "called", next |-> 1, result |-> None]
                               : t \in RunTexts }]
    /\ calcs = [c \in Callers |-> None]
    /\ lists = [c \in Callers |-> None]

\* parse_query up to its loop: the grammar's pairs are there, the list and
\* the calculator are created
Begin(caller) ==
    /\ phase = "runs"
    /\ runs[caller].stage = "called"
    /\ runs' = [runs EXCEPT ![caller].stage = "looping"]
    /\ lists' = [lists EXCEPT ![ListOf(caller)] = << >>]
    /\ calcs' = [calcs EXCEPT ![CalculatorOf(caller)] = PcNew]
    /\ last_call' = "parse_query"
    /\ UNCHANGED << phase, source, definitions, fragments, current_operation, calls,
                    operation_name, ret, first, succeeded, access, drained >>
    /\ UNCHANGED pcvars
    /\ UNCHANGED valvars

\* one iteration of parse_query's loop; an error returns at once
Transform(caller) ==
    /\ phase = "runs"
    /\ runs[caller].stage = "looping"
    /\ runs[caller].next <= Len(DocumentPairs(runs[caller].text, 1))
    /\ LET run == runs[caller]
           pair == DocumentPairs(run.text, 1)[run.next]
           t == TransformPair(pair, calcs[CalculatorOf(caller)], run.text)
       IN  /\ calcs' = [calcs EXCEPT ![CalculatorOf(caller)] = t.pc]
           /\ IF t.result.ok
              THEN /\ lists' = [lists EXCEPT ![ListOf(caller)] = Append(@, t.result.value)]
                   /\ runs' = [runs EXCEPT ![caller].next = run.next + 1]
              ELSE /\ lists' = lists
                   /\ runs' = [runs EXCEPT ![caller].stage = "returned",
                                           ![caller].result = Some(t.result)]
    /\ last_call' = "parse_selection_set"
    /\ UNCHANGED << phase, source, definitions, fragments, current_operation, calls,
                    operation_name, ret, first, succeeded, access, drained >>
    /\ UNCHANGED pcvars
    /\ UNCHANGED valvars

\* Ok(Document { .. }) after the loop
Return(caller) ==
    /\ phase = "runs"
    /\ runs[caller].stage = "looping"
    /\ runs[caller].next > Len(DocumentPairs(runs[caller].text, 1))
    /\ runs' = [runs EXCEPT ![caller].stage = "returned",
                            ![caller].result = Some(Ok([definitions |-> lists[ListOf(caller)]]))]
    /\ last_call' = "return"
    /\ UNCHANGED << phase, source, definitions, fragments, current_operation, calls,
                    operation_name, ret, first, succeeded, access, drained >>
    /\ UNCHANGED pcvars
    /\ UNCHANGED valvars
    /\ UNCHANGED << calcs, lists >>

NextRuns == \E caller \in Callers : Begin(caller) \/ Transform(caller) \/ Return(caller)

SpecRuns == InitRuns /\ [][NextRuns]_vars

\* ===================================================== claims: the resolver
MinOf(S) == CHOOSE x \in S : \A y \in S : x <= y
MaxOf(S) == CHOOSE x \in S : \A y \in S : x >= y

\* the request's reading of "acceptable", stated on the source text's pairs
AcceptablePair(pair, requested) ==
    \/ pair.rule = "selection_set"
    \/ /\ pair.rule = "named_operation_definition"
       /\ (pair.name = None \/ requested = None \/ pair.name = requested)

AcceptableAt(requested) ==
    { i \in 1..Len(source) : AcceptablePair(source[i], requested) }

FragmentsAt(n) ==
    { i \in 1..Len(source) :
        source[i].rule = "fragment_definition" /\ source[i].name = n }

AfterFirstCall == calls = 1

QueryPair(n) ==
    [rule |-> "named_operation_definition", operation_type |-> "query",
     name |-> Some(n), items |-> LeafItems]

\* C1: the first retain_operation call selects the first operation definition,
\* in source order, that is a shorthand or a keyworded operation with no name,
\* or no requested name, or the requested name; later operations are ignored.
C1_FirstAcceptableSelected ==
    AfterFirstCall =>
        LET ok == AcceptableAt(operation_name)
        IN  /\ ok # {} =>
                /\ current_operation # None
                /\ current_operation.value.selection_set
                     = [pos |-> MinOf(ok), items |-> source[MinOf(ok)].items]
            /\ ok = {} => current_operation = None
            /\ ret \in {Some(TRUE), Some(FALSE)}

\* `query A {..} query B {..}`, "B" requested: B's selection set is chosen
C1_Witness ==
    /\ AfterFirstCall
    /\ source = << QueryPair("A"), QueryPair("B") >>
    /\ operation_name = Some("B")
    /\ current_operation # None
    /\ current_operation.value.selection_set.pos = 2

\* C2: a shorthand operation reached while nothing is chosen is selected
\* whatever name was requested, as a Query without variable definitions.
C2_ShorthandAlwaysAccepted ==
    AfterFirstCall =>
        \A i \in 1..Len(source) :
            (/\ source[i].rule = "selection_set"
             /\ \A j \in 1..(i - 1) : ~AcceptablePair(source[j], operation_name))
            => /\ current_operation
                    = Some([ty |-> "OperationType::Query",
                            variable_definitions |-> << >>,
                            selection_set |-> [pos |-> i, items |-> source[i].items]])
               /\ ret = Some(TRUE)

\* `{ hero { name } } query B {..}` resolved with "B" requested
C2_Witness ==
    /\ AfterFirstCall
    /\ source = << [rule |-> "selection_set", items |-> HeroItems], QueryPair("B") >>
    /\ operation_name = Some("B")
    /\ ret = Some(TRUE)
    /\ current_operation.value.ty = "OperationType::Query"
    /\ current_operation.value.selection_set.pos = 1

\* C3: a fragment name defined several times maps to its last definition,
\* and the call still returns normally.
C3_LastFragmentWins ==
    AfterFirstCall =>
        \A n \in FragmentNames :
            Cardinality(FragmentsAt(n)) > 1 =>
                /\ n \in Keys(fragments)
                /\ fragments[n].selection_set.pos = MaxOf(FragmentsAt(n))
                /\ ret \in {Some(TRUE), Some(FALSE)}

C3_Witness ==
    /\ AfterFirstCall
    /\ Cardinality(FragmentsAt("F")) = 2
    /\ "F" \in Keys(fragments)
    /\ fragments["F"].selection_set.pos = MaxOf(FragmentsAt("F"))
    /\ MinOf(FragmentsAt("F")) = 1

\* C4: after the first call the fragments table's keys are exactly the
\* fragment names the document defines, chosen operation or not.
C4_FragmentKeys ==
    AfterFirstCall =>
        /\ Keys(fragments) = { n \in FragmentNames : FragmentsAt(n) # {} }
        /\ (source = << [rule |-> "selection_set", items |-> SpreadItems],
                        [rule |-> "fragment_definition", name |-> "F",
                         items |-> LeafItems] >>)
            => /\ "F" \in Keys(fragments)
               /\ current_operation # None
               /\ current_operation.value.selection_set.items = SpreadItems

\* `{ ...F } fragment F on T { a }`
C4_Witness ==
    /\ AfterFirstCall
    /\ source = << [rule |-> "selection_set", items |-> SpreadItems],
                   [rule |-> "fragment_definition", name |-> "F", items |-> LeafItems] >>
    /\ Keys(fragments) = {"F"}
    /\ Len(current_operation.value.selection_set.items) = 1
    /\ current_operation.value.selection_set.items[1].fragment_name = "F"

\* C5: retain_operation returns true iff the document then holds a current
\* operation; the first call returns false exactly when nothing is acceptable.
C5_ReturnsWhetherChosen ==
    /\ ret # None => (ret.value <=> current_operation # None)
    /\ AfterFirstCall => (ret = Some(FALSE) <=> AcceptableAt(operation_name) = {})

C5_Witness ==
    /\ AfterFirstCall
    /\ ret = Some(FALSE)
    /\ \E i \in 1..Len(source) : source[i].rule = "named_operation_definition"

\* C6: current_operation is None until a call returns true, and once Some it
\* is never changed by a later call.
C6_CurrentOperationFixed ==
    /\ [](~succeeded => current_operation = None)
    /\ [][current_operation # None => current_operation' = current_operation]_vars

C6_Witness ==
    /\ calls = 2
    /\ current_operation # None
    /\ first.value.current_operation = current_operation
    /\ operation_name # None

\* C7: a second retain_operation call leaves the fragments table and the
\* current operation as the first call left them and returns the same boolean.
C7_SecondCallIdempotent ==
    calls = 2 =>
        /\ fragments = first.value.fragments
        /\ current_operation = first.value.current_operation
        /\ ret = Some(first.value.ret)

\* C8: current_operation() panics in every state where no retain_operation
\* call has returned true and returns the chosen operation in every other.
C8_AccessPanicsBeforeSuccess ==
    last_call = "current_operation" =>
        IF succeeded
        THEN access = [panic |-> FALSE, value |-> current_operation.value]
        ELSE access.panic /\ phase = "panicked"

\* a failed resolution followed by the access
C8_Witness ==
    /\ last_call = "current_operation"
    /\ calls >= 1
    /\ ret = Some(FALSE)
    /\ access.panic

\* C9: the CurrentOperation has the operation type of the selected
\* definition's keyword and that definition's variables and selection set.
TypeOfKeyword(k) ==
    CASE k = "query" -> "OperationType::Query"
      [] k = "mutation" -> "OperationType::Mutation"
      [] k = "subscription" -> "OperationType::Subscription"

C9_OperationOfSelectedDefinition ==
    (AfterFirstCall /\ AcceptableAt(operation_name) # {}) =>
        LET i == MinOf(AcceptableAt(operation_name))
        IN  source[i].rule = "named_operation_definition" =>
                current_operation
                  = Some([ty |-> TypeOfKeyword(source[i].operation_type),
                          variable_definitions |-> << [name |-> "v", pos |-> i] >>,
                          selection_set |-> [pos |-> i, items |-> source[i].items]])

C9_Witness ==
    /\ AfterFirstCall
    /\ Len(source) = 3
    /\ source[1].rule = "named_operation_definition"
    /\ source[2].rule = "named_operation_definition"
    /\ source[2].operation_type = "subscription"
    /\ source[1].operation_type = "mutation"
    /\ current_operation # None
    /\ current_operation.value.ty = "OperationType::Subscription"
    /\ current_operation.value.variable_definitions[1].pos = 2

\* ========================================== claims: the position calculator
\* number of characters that start before the byte offset
CharsBefore(text, offset) ==
    Cardinality({ i \in 1..Len(text) : ByteStart(text, i) < offset })

\* a manual 1-indexed count: every LF starts a line (the LF of a CR LF pair
\* included, so the pair is one newline); the column counts the characters
\* since the last line start
ManualPos(text, offset) ==
    LET k == CharsBefore(text, offset)
        lfs == { i \in 1..k : text[i] = "LF" }
        lastLf == IF lfs = {} THEN 0 ELSE MaxOf(lfs)
    IN  [line |-> 1 + Cardinality(lfs), column |-> 1 + (k - lastLf)]

SingleByteText(text) == \A i \in 1..Len(text) : LenUtf8(text[i]) = 1

\* C10: every position step returns equals the manual line/column count of
\* the node's offset, a CR LF pair counting as one newline.  Stated on texts
\* of one-byte characters; characters of several bytes are C11's subject.
C10_StepMatchesManualCount ==
    (stepped # None /\ SingleByteText(input)) =>
        stepped.value.pos = ManualPos(input, stepped.value.offset)

\* texts whose line breaks are bare LF
NoCarriageReturn(text) == \A i \in 1..Len(text) : text[i] # "CR"

\* C11: step advances the column once per character, not once per byte: the
\* column is 1 plus the number of characters before the node on its line, and
\* the cursor does not read beyond the character at the target offset.
\* Stated on texts without CR, whose line breaks step counts correctly.
C11_ColumnCountsCharacters ==
    (stepped # None /\ NoCarriageReturn(input)) =>
        /\ stepped.value.pos.column = ManualPos(input, stepped.value.offset).column
        /\ stepped.value.pos.line = ManualPos(input, stepped.value.offset).line
        /\ consumed <= CharsBefore(input, stepped.value.offset) + 1

\* ============================================ claims: string literals
Parsed == lit # None /\ lit.kind = "string" /\ out # None

\* the character each well-formed unit stands for, as GraphQL defines it
DigitValue(c) ==
    CASE c = 48 -> 0 [] c = 49 -> 1 [] c = 52 -> 4 [] c = 68 -> 13 [] OTHER -> 0 - 1

Quad(u) == SubSeq(u.chars, 3, Len(u.chars))

CodePoint(u) ==
    LET q == Quad(u)
    IN  4096 * DigitValue(q[1]) + 256 * DigitValue(q[2])
        + 16 * DigitValue(q[3]) + DigitValue(q[4])

FourHexDigits(u) ==
    /\ u.kind = "unicode"
    /\ Len(u.chars) = 6
    /\ \A i \in 3..6 : DigitValue(u.chars[i]) >= 0

Surrogate(u) == FourHexDigits(u) /\ CodePoint(u) >= 55296 /\ CodePoint(u) <= 57343

SimpleUnit(u) == u.kind = "escape" /\ u \in SimpleUnits

EscapedChar(c) ==
    CASE c = 98 -> 8        \* backspace
      [] c = 102 -> 12      \* form feed
      [] c = 110 -> 10      \* line feed
      [] c = 114 -> 13      \* carriage return
      [] c = 116 -> 9       \* tab
      [] OTHER -> c         \* " \ /

UnitChar(u) ==
    IF u.kind = "plain" THEN u.chars[1]
    ELSE IF u.kind = "escape" THEN EscapedChar(u.chars[2])
    ELSE CodePoint(u)

Decoded(us) == [i \in 1..Len(us) |-> UnitChar(us[i])]

StringValue(chars) == Ok([value |-> "String", string |-> chars])

\* C12: every simple escape decodes to its character (\b to U+0008, \f to
\* U+000C, \n to U+000A, \r to U+000D, \t to U+0009, \" \\ \/ to themselves)
\* and every other character is copied unchanged, in order.
C12_SimpleEscapesDecoded ==
    (Parsed /\ \A i \in 1..Len(lit.units) :
                    lit.units[i].kind = "plain" \/ SimpleUnit(lit.units[i]))
        => out.value = StringValue(Decoded(lit.units))

\* C13 as stated: every `\uXXXX` of four hexadecimal digits decodes to the
\* character whose code point is XXXX, the rest being ordinary input.
C13_EveryQuadDecodes ==
    (Parsed /\ \A i \in 1..Len(lit.units) :
                    lit.units[i].kind = "plain" \/ FourHexDigits(lit.units[i]))
        => out.value = StringValue(Decoded(lit.units))

FirstSurrogate(us) == MinOf({ i \in 1..Len(us) : Surrogate(us[i]) })

\* C13: every `\uXXXX` of four hexadecimal digits whose value is not a
\* surrogate (D800..DFFF) consumes exactly those four characters and decodes
\* to the character with that code point, what follows being ordinary input;
\* a surrogate value fails with "is not a valid unicode code point".
C13_NonSurrogateQuadDecodes ==
    (Parsed /\ \A i \in 1..Len(lit.units) :
                    lit.units[i].kind = "plain" \/ FourHexDigits(lit.units[i]))
        => IF \E i \in 1..Len(lit.units) : Surrogate(lit.units[i])
           THEN out.value = Err(lit.start, "is not a valid unicode code point",
                                Quad(lit.units[FirstSurrogate(lit.units)]))
           ELSE out.value = StringValue(Decoded(lit.units))

\* "A4" is the two characters A and 4
C13_Witness ==
    /\ Parsed
    /\ lit.units = << UnicodeUnit(<< 48, 48, 52, 49 >>), PlainUnit(52) >>
    /\ out.value = StringValue(<< 65, 52 >>)

\* a `\u` with a non-hexadecimal character among its four, or cut off by the
\* end of the literal
MalformedUnicode(u) == u.kind = "unicode" /\ ~FourHexDigits(u)

\* C14: a malformed `\u` escape makes the parse fail with an Error positioned
\* at the opening quote of the literal, and no value is returned.
C14_MalformedUnicodeFails ==
    (Parsed /\ \E i \in 1..Len(lit.units) : MalformedUnicode(lit.units[i]))
        => /\ ~out.value.ok
           /\ "panic" \notin DOMAIN out.value
           /\ "value" \notin DOMAIN out.value
           /\ out.value.pos = lit.start

\* "Z\u00Z1" on line 2, column 5
C14_Witness ==
    /\ Parsed
    /\ lit.units = << PlainUnit(90), UnicodeUnit(<< 48, 48, 90, 49 >>) >>
    /\ lit.start = [line |-> 2, column |-> 5]
    /\ out.value = Err([line |-> 2, column |-> 5],
                       "is not a valid unicode code point", << 90 >>)

\* the error the claim expects of a malformed unit
BadUnit(u) == u.kind = "escape" /\ ~SimpleUnit(u)

Malformed(u) == BadUnit(u) \/ MalformedUnicode(u) \/ Surrogate(u)

NonHexIn(u) == { i \in 3..Len(u.chars) : DigitValue(u.chars[i]) < 0 }

ErrorOf(u, p) ==
    IF BadUnit(u) THEN Err(p, "bad escaped char", << u.chars[2] >>)
    ELSE IF Surrogate(u) THEN Err(p, "is not a valid unicode code point", Quad(u))
    ELSE IF NonHexIn(u) # {}
         THEN Err(p, "is not a valid unicode code point", << u.chars[MinOf(NonHexIn(u))] >>)
         ELSE Err(p, "must have 4 characters after it", Quad(u))

\* the units of the model only use the digits DigitValue knows
KnownDigits(us) ==
    \A i \in 1..Len(us) :
        us[i].kind = "unicode" =>
            \A j \in 3..Len(us[i].chars) : us[i].chars[j] \in QuadChars

\* C15: a backslash before any character other than " \ / b f n r t u fails
\* with "bad escaped char" at the literal's start; escapes are decoded left
\* to right, so the error is that of the leftmost malformed escape.
C15_LeftmostErrorReported ==
    (Parsed /\ KnownDigits(lit.units)
            /\ \E i \in 1..Len(lit.units) : Malformed(lit.units[i]))
        => LET k == MinOf({ i \in 1..Len(lit.units) : Malformed(lit.units[i]) })
           IN  out.value = ErrorOf(lit.units[k], lit.start)

\* "\q\u00Z1": the bad escape comes first
C15_Witness ==
    /\ Parsed
    /\ lit.units = << EscapeUnit(113), UnicodeUnit(<< 48, 48, 90, 49 >>) >>
    /\ out.value = Err(lit.start, "bad escaped char", << 113 >>)

\* ============================================ claims: object literals
ObjectParsed == lit # None /\ lit.kind = "object" /\ out # None

ObjectPairsOf(l) == l.pair.inner[1].inner

OccurrencesOf(l, k) ==
    { i \in 1..Len(ObjectPairsOf(l)) : ObjectPairsOf(l)[i].inner[1].str = k }

\* C16: an object literal yields a mapping with one entry per distinct key,
\* holding the value of the key's last occurrence in source order.
C16_ObjectLastKeyWins ==
    ObjectParsed =>
        /\ out.value.ok
        /\ out.value.value.value = "Object"
        /\ DOMAIN out.value.value.map
             = { k \in ObjectKeys : OccurrencesOf(lit, k) # {} }
        /\ \A k \in DOMAIN out.value.value.map :
             out.value.value.map[k]
               = ParseValue2(ObjectPairsOf(lit)[MaxOf(OccurrencesOf(lit, k))].inner[2]).value

\* {x: null, y: E, x: true}
C16_Witness ==
    /\ ObjectParsed
    /\ Len(ObjectPairsOf(lit)) = 3
    /\ OccurrencesOf(lit, "x") = {1, 3}
    /\ ObjectPairsOf(lit)[1].inner[2] = ValuePair(Leaf("null", "null"))
    /\ ObjectPairsOf(lit)[3].inner[2] = ValuePair(Leaf("boolean", "true"))
    /\ out.value.value.map["x"] = [value |-> "Boolean", boolean |-> TRUE]

\* ============================================ claims: numeric literals
NumberParsed == lit # None /\ lit.kind = "number" /\ out # None

\* C18: every int or float literal the grammar accepts, integer literals
\* beyond the range of the target integer type included, is turned into a
\* Value; the AST builder never fails fatally on it.
C18_NumbersNeverPanic ==
    NumberParsed =>
        /\ out.value.ok
        /\ "panic" \notin DOMAIN out.value
        /\ out.value.value.value \in {"Int", "Float"}

\* ============================================ claims: type references
TypeParsed == lit # None /\ lit.kind = "type" /\ out # None

\* C20: the Type parse_type builds mirrors the NonNull/List/Named nesting of
\* the type reference, so that formatting it with Display gives back the
\* text of the reference.
C20_TypeDisplayRoundTrip ==
    TypeParsed =>
        /\ out.value.ok
        /\ Display(out.value.value) = TypeText(lit.pair)

\* [T!]!
C20_Witness ==
    /\ TypeParsed
    /\ TypeText(lit.pair) = << "[", "T", "!", "]", "!" >>
    /\ out.value.value
         = [type |-> "NonNull",
            of |-> [type |-> "List",
                    of |-> [type |-> "NonNull",
                            of |-> [type |-> "Named", name |-> "T"]]]]

\* ============================================ claims: errors of parse_query
DocumentParsed == lit # None /\ lit.kind = "document" /\ out # None

BadString(sp) == \E i \in 1..Len(sp.units) : Malformed(sp.units[i])

\* the malformed strings of the document, as <<definition, argument>>
BadPlaces(l) ==
    { << i, j >> \in (1..Len(l.pairs)) \X (1..MaxArgs + 1) :
        j <= Len(l.pairs[i].strings) /\ BadString(l.pairs[i].strings[j]) }

Precedes(a, b) == a[1] < b[1] \/ (a[1] = b[1] /\ a[2] <= b[2])

FirstBadPlace(l) == CHOOSE a \in BadPlaces(l) : \A b \in BadPlaces(l) : Precedes(a, b)

\* C17: parse_query returns a complete Document or exactly one Error: with
\* several malformed escapes it returns the error of the first one in source
\* order, transforms no later definition and produces no partial Document.
C17_FirstErrorAborts ==
    DocumentParsed =>
        IF BadPlaces(lit) = {}
        THEN /\ out.value.result.ok
             /\ Len(out.value.result.value.definitions) = Len(lit.pairs)
        ELSE LET a == FirstBadPlace(lit)
                 sp == lit.pairs[a[1]].strings[a[2]]
                 k == MinOf({ i \in 1..Len(sp.units) : Malformed(sp.units[i]) })
             IN  /\ out.value.result = ErrorOf(sp.units[k], sp.start)
                 /\ out.value.visited = a[1]

\* { f(s: "a", t: "\u00Z1") } { f(s: "\q") }
C17_Witness ==
    /\ DocumentParsed
    /\ Len(lit.pairs) = 2
    /\ BadPlaces(lit) = { << 1, 2 >>, << 2, 1 >> }
    /\ lit.pairs[1].strings[2].units = << UnicodeUnit(<< 48, 48, 90, 49 >>) >>
    /\ out.value.result = Err([line |-> 1, column |-> 2],
                              "is not a valid unicode code point", << 90 >>)
    /\ out.value.visited = 1

\* ============================================ claims: node positions
TypeConditionParsed == lit # None /\ lit.kind = "type_condition" /\ out # None

\* C19: every Positioned node carries the position of its own opening token:
\* a type condition that of its `on` keyword, the name inside it that of the
\* type name.
C19_TypeConditionAtOnKeyword ==
    TypeConditionParsed =>
        /\ out.value.value.pos = ManualPos(lit.text, lit.pair.start)
        /\ out.value.value.node.on.pos = ManualPos(lit.text, lit.pair.inner[1].start)

\* ================================= claims: the resolver's single pass
\* C25: retain_operation visits every definition once, in source order, and
\* leaves Document::definitions() empty when it returns, whether it returns
\* true or false.
C25_DrainsEveryDefinitionOnce ==
    [][calls' = calls + 1 =>
          /\ definitions' = << >>
          /\ drained' = [i \in 1..Len(definitions) |-> definitions[i].selection_set.pos]]_vars

\* query A {..}  fragment F {..}  query A {..}, "B" requested: false is
\* returned after all three definitions were visited
C25_Witness ==
    /\ calls = 1
    /\ source = << QueryPair("A"),
                   [rule |-> "fragment_definition", name |-> "F", items |-> LeafItems],
                   QueryPair("A") >>
    /\ operation_name = Some("B")
    /\ ret = Some(FALSE)
    /\ drained = << 1, 2, 3 >>
    /\ definitions = << >>

\* C26: once a retain_operation call has returned false, every later call
\* on the Document returns false, whatever name it requests.
C26_FalseStaysFalse ==
    [][(ret = Some(FALSE) /\ calls' = calls + 1) => ret' = Some(FALSE)]_vars

\* query A {..}: "B" requested, then "A": false both times
C26_Witness ==
    /\ calls = 2
    /\ source = << QueryPair("A") >>
    /\ first # None
    /\ first.value.ret = FALSE
    /\ operation_name = Some("A")
    /\ ret = Some(FALSE)
    /\ drained = << >>

\* ================================== claims: parse_query calls side by side
Returned(caller) == runs # << >> /\ runs[caller].stage = "returned"

\* C21: two parse_query calls on the same source text return structurally
\* identical results: the same ordered definitions with the same positions,
\* or the same error.
C21_SameTextSameResult ==
    (Returned(1) /\ Returned(2) /\ runs[1].text = runs[2].text)
        => runs[1].result = runs[2].result

\* "a" LF "a" parsed twice, the steps of the two calls interleaved: both
\* return the definitions at (1,1) and (2,1)
C21_Witness ==
    /\ Returned(1) /\ Returned(2)
    /\ runs[1].text = << "a", "LF", "a" >>
    /\ runs[2].text = << "a", "LF", "a" >>
    /\ runs[1].result.value.ok
    /\ Len(runs[2].result.value.value.definitions) = 2
    /\ runs[2].result.value.value.definitions[2].selection_set.pos
         = [line |-> 2, column |-> 1]

\* C22: each of two parses whose steps interleave in any order returns what
\* it returns when run alone, and a step of one parse leaves the calculator
\* and the definitions list of the other as they were.
C22_InterleavedAsAlone ==
    /\ [](\A c \in Callers :
            Returned(c) => runs[c].result = Some(ParseQueryAlone(runs[c].text)))
    /\ [][\A c \in Callers :
            (runs # << >> /\ runs'[c] = runs[c])
                => (calcs'[c] = calcs[c] /\ lists'[c] = lists[c])]_vars

\* "a" "a" and LF "a" parsed side by side, the second call still looping
\* when the first returns two definitions
C22_Witness ==
    /\ Returned(1)
    /\ runs[1].text = << "a", "a" >>
    /\ runs[2].text = << "LF", "a" >>
    /\ runs[2].stage = "looping"
    /\ runs[2].next = 2
    /\ runs[1].result = Some(ParseQueryAlone(runs[1].text))
    /\ Len(runs[1].result.value.value.definitions) = 2

\* ======================================== claims: KnownFragmentNames
RuleChecked == lit # None /\ lit.kind = "validation" /\ out # None

UnknownSpreads == { sp \in lit.spreads : sp.name \notin lit.defined }

UnknownFragmentError(sp) ==
    [locations |-> << sp.pos >>, message |-> << "Unknown fragment: ", sp.name >>]

\* C23: the rule reports one "Unknown fragment" error, at the spread's
\* position, for every spread that names no fragment of the document, be the
\* spread in a field, an inline fragment or a fragment definition, and no
\* error when every spread names a defined fragment.
C23_OneErrorPerUnknownSpread ==
    RuleChecked =>
        LET errors == out.value
        IN  /\ { errors[i] : i \in 1..Len(errors) }
                 = { UnknownFragmentError(sp) : sp \in UnknownSpreads }
            /\ Len(errors) = Cardinality(UnknownSpreads)

\* { human { ...U  ... on T { ...U } } }  fragment F on T { name ...U }
\* fragment G on T { name ...F }: three errors, none for ...F
C23_Witness ==
    /\ RuleChecked
    /\ lit.spreads = { [name |-> "U", pos |-> [line |-> 1, column |-> 1]],
                       [name |-> "U", pos |-> [line |-> 1, column |-> 2]],
                       [name |-> "U", pos |-> [line |-> 2, column |-> 1]],
                       [name |-> "F", pos |-> [line |-> 3, column |-> 1]] }
    /\ lit.doc[1].selection_set[1].selection_set[2].selection = "InlineFragment"
    /\ lit.defined = {"F", "G"}
    /\ Len(out.value) = 3

\* ================================= claims: the order of the step calls
TreeParsed == lit # None /\ lit.kind = "tree" /\ out # None

\* the debug_assert!(pos >= self.pos) of every call holds, the calculator
\* starting at offset 0
NeverBackwards(offsets) ==
    \A k \in 1..Len(offsets) :
        offsets[k] >= (IF k = 1 THEN 0 ELSE offsets[k - 1])

\* C24: during parse_query and parse_value on grammar-accepted input the
\* offsets handed to PositionCalculator::step never decrease, whatever the
\* production: aliases, arguments, directives, variable definitions, type
\* conditions, nested values.
C24_StepOffsetsNeverDecrease ==
    TreeParsed => NeverBackwards(out.value)

\* query ($v: T = [{n: $v} $v], $v: T) @d(n: $v) @d { x }
C24_Witness ==
    /\ TreeParsed
    /\ lit.entry = "parse_query"
    /\ lit.pair.inner[1].rule = "named_operation_definition"
    /\ Len(lit.pair.inner[1].inner) = 4
    /\ lit.pair.inner[1].inner[2].rule = "variable_definitions"
    /\ Len(lit.pair.inner[1].inner[2].inner) = 2
    /\ Len(lit.pair.inner[1].inner[2].inner[1].inner) = 3
    /\ lit.pair.inner[1].inner[2].inner[1].inner[3].inner[1].start = 13
    /\ lit.pair.inner[1].inner[2].inner[1].inner[3].inner[1].inner[1].rule = "array"
    /\ lit.pair.inner[1].inner[2].inner[1].inner[3].inner[1].inner[1].inner[1].inner[1].rule
         = "object"
    /\ Len(lit.pair.inner[1].inner[3].inner) = 2
    /\ Len(out.value) > 10

\* ================================================ claims: get_argument
ArgumentLookedUp == lit # None /\ lit.kind = "arguments" /\ out # None

\* the source's arguments of the name looked up, by index
NamedAlike == { k \in 1..Len(lit.pairs) : lit.pairs[k].name = lit.name }

\* C27: get_argument of a field and of a directive returns the value of the
\* first argument, in source order, of the given name, and None when there
\* is none; a repeated name's later values are never returned, and the
\* argument list keeps every occurrence in source order.
C27_FirstArgumentOfName ==
    ArgumentLookedUp =>
        /\ NamedAlike = {} => out.value.found = None
        /\ NamedAlike # {} =>
             /\ out.value.found # None
             /\ out.value.found.value.node = lit.pairs[MinOf(NamedAlike)].value
             /\ out.value.found.value.pos = lit.pairs[MinOf(NamedAlike)].start
        /\ Len(out.value.arguments) = Len(lit.pairs)
        /\ \A k \in 1..Len(lit.pairs) :
             /\ out.value.arguments[k][1].node = lit.pairs[k].name
             /\ out.value.arguments[k][2].node = lit.pairs[k].value

\* f(x: 1, y: 2, x: 3), "x" looked up: the value 1
C27_Witness ==
    /\ ArgumentLookedUp
    /\ lit.owner = "Field"
    /\ lit.pairs = ArgumentPairsOf(<< "x", "y", "x" >>)
    /\ lit.name = "x"
    /\ out.value.found = Some([node |-> 1, pos |-> 1])
    /\ Len(out.value.arguments) = 3

====
